---- MODULE Spec2Model ----
(***************************************************************************)
(* Bounce Shooter: the simulation core of the grid-based game script       *)
(* (src/unnamed/part_001) with the occupancy set of src/state.js.          *)
(*                                                                         *)
(* One action is one handler run to completion: a frame is a whole         *)
(* update() call, UpgradeClick a whole applyUpgrade() call, RestartClick   *)
(* the click handler's initGame() call.                                    *)
(*                                                                         *)
(* Pixel positions are not kept, except in the runs of SpecPixel, which    *)
(* keep the box of every enemy, and of SpecFlight, which follow one        *)
(* projectile among standing enemies.  What update() reads from them is an *)
(* input of the step: for each projectile the number of walls it touches   *)
(* after moving, for each enemy whether its y is now beyond the spawn zone *)
(* or beyond the bottom edge, and for each projectile the indices of the   *)
(* enemies its box overlaps.  An enemy keeps the one fact about y that     *)
(* outlives a frame: whether y > spawnZoneHeight.                          *)
(* Date.now() is kept as the two elapsed times the code compares, each     *)
(* saturating at its threshold.  Math.random() is an input: the shuffled   *)
(* column order of the allocator and the coin of the second spawn.         *)
(***************************************************************************)
EXTENDS Integers, Sequences, FiniteSets, TLC

(* ---------------- program constants ---------------- *)
GRID_COLUMNS == 8
GRID_CELL_SIZE == 40
maxRow == 5
BULLET_COOLDOWN == 150
BLOCK_SPAWN_INTERVAL == 4000
MIN_SPAWN_INTERVAL == 500
\* speeds are in 1/1000 px per frame: 0.4 px
BLOCK_SPEED == 400
INITIAL_REQUIRED_KILLS == 10
KILLS_INCREMENT_PER_LEVEL == 5
NORMAL_ENEMY_HP_MULTIPLIER == 5
ELITE_ENEMY_HP_MULTIPLIER == 10
ELITE_SIZE_GROWTH == 10
\* the bullet speed multiplier is in 1/100: +0.02
SPEED_UPGRADE_INCREMENT == 2
SECOND_SPAWN_LEVEL == 3
SCORE_SMALL == 10
SCORE_MEDIUM == 20
SCORE_LARGE == 30
SCORE_ELITE == 100
EXTRA_LATERAL_SAFE_AREA == 50
BASE_BULLET_SPEED == 7
BULLET_WIDTH == 6
BULLET_HEIGHT == 6

BLOCK_SIZES == [LARGE |-> 80, MEDIUM |-> 60, SMALL |-> 40]

(* ---------------- bounds of the model ---------------- *)
\* enemies alive when update() returns
MaxBlocks == 3
\* the same, in the runs that let the grid fill
MaxCrowd == 13
\* projectiles still flying when update() returns
MaxBullets == 1
MaxLevel == 2
MaxRuns == 2
\* LARGE enemies destroyed, with all their offspring but the SMALL ones left,
\* and projectiles in flight, when a barrage begins
MaxWave == 7
MaxVolley == 16
\* the column orders the shuffle may produce: the one that swaps nothing
Shuffles == { <<0, 1, 2, 3, 4, 5, 6, 7>> }

VARIABLES
  blocks,                 \* live enemies, in array order
  bullets,                \* live projectiles, in array order
  gridOccupied,           \* occupied cells, <<row, col>>
  gameOver, gamePaused, showUpgradeMenu,
  score, kills, requiredKills, level,
  bulletDamage, bulletSpeedMultiplier, maxBounces,
  currentBlockSpeed, currentSpawnInterval,
  sinceShot,              \* min(Date.now() - lastShot, BULLET_COOLDOWN)
  sinceSpawn,             \* min(Date.now() - lastBlockSpawn, BLOCK_SPAWN_INTERVAL)
  aim,                    \* the aiming system: isAiming, the drag's start and
                          \* current point (px), the last direction (1/1000)
  runs,                   \* initGame() calls so far
  pending,                \* gameLoop callbacks waiting at requestAnimationFrame
  rect,                   \* canvas.getBoundingClientRect(): width and height, px
  boxes,                  \* in the runs that keep pixel positions: for each live
                          \* enemy, in array order, its x (1/16 px), y (1/1000 px),
                          \* width (px) and speed (1/1000 px a frame)
  flight,                 \* in the runs that follow projectiles pixel by pixel: the
                          \* projectiles (shots) and the enemies in their way, with
                          \* positions and velocities in 1/80 px
  log                     \* what the last handler did, in order

vars == << blocks, bullets, gridOccupied, gameOver, gamePaused, showUpgradeMenu,
           score, kills, requiredKills, level, bulletDamage,
           bulletSpeedMultiplier, maxBounces, currentBlockSpeed,
           currentSpawnInterval, sinceShot, sinceSpawn, aim, runs, pending, rect,
           boxes, flight, log >>

(* ---------------- helpers ---------------- *)
Min(a, b) == IF a < b THEN a ELSE b
Max(a, b) == IF a < b THEN b ELSE a
\* Math.ceil(a / b) for a >= 0, b > 0
Ceil(a, b) == (a + b - 1) \div b
RemoveAt(s, i) == SubSeq(s, 1, i - 1) \o SubSeq(s, i + 1, Len(s))

\* a natural number as its decimal digits, the lowest first
RECURSIVE digitsOf(_)
digitsOf(n) == IF n = 0 THEN << >> ELSE << n % 10 >> \o digitsOf(n \div 10)

\* the digits of ds * k + carry
RECURSIVE timesDigits(_, _, _)
timesDigits(ds, k, carry) ==
  IF ds = << >> THEN digitsOf(carry)
  ELSE LET p == Head(ds) * k + carry
       IN  << p % 10 >> \o timesDigits(Tail(ds), k, p \div 10)

RECURSIVE valueOf(_)
valueOf(ds) == IF ds = << >> THEN 0 ELSE Head(ds) + 10 * valueOf(Tail(ds))

NoBlock == [size |-> "NONE"]
NoSpace == [col |-> -1, row |-> -1, cellsNeeded |-> 0]

\* one entry of the log:
\*   "spawn"   the block pushed, a how it came to be ("normal", "second", "elite",
\*             "child"), b the occupancy that was searched for its cells
\*   "nospace" a the kind of spawn that found no cells, b the occupancy it searched
\*   "destroy" the block spliced out, a its hp before the hit, b the cells its
\*             death freed, at its index in the array
\*   "hit"     the block that survives a hit made while the pause flag is set,
\*             with its new hp, a its hp before
\*   "levelup" a and b the kills and requiredKills that triggered it
\*   "bottom"  the block whose y is beyond the bottom edge, a its index
\*   "shoot"   the projectile pushed, with its velocity (1/100000 px a frame),
\*             a and b the direction it was given (1/1000)
\* coin is set in the first search of a spawner tick: what "Math.random() < 0.3"
\* gives at that tick
Ev(type, block, a, b) ==
  [type |-> type, block |-> block, a |-> a, b |-> b, at |-> 0, coin |-> FALSE]

(* ---------------- occupancy set (state.js) ---------------- *)
isGridCellOccupied(grid, row, col) == <<row, col>> \in grid
occupyGridCell(grid, row, col) == grid \cup {<<row, col>>}
freeGridCell(grid, row, col) == grid \ {<<row, col>>}

\* the cells of the n x n block at (row, col)
CellsOf(row, col, n) ==
  {<<row + dr, col + dc>> : dr \in 0..(n - 1), dc \in 0..(n - 1)}

\* a fault: only the block's first cell is marked
occupyBlockCorner(grid, pos) ==
  occupyGridCell(grid, pos.row, pos.col)

\* the nested occupyGridCell loops of a spawn
occupyBlock(grid, pos) ==
  grid \cup CellsOf(pos.row, pos.col, pos.cellsNeeded)

\* the nested freeGridCell loops
freeBlock(grid, block) ==
  grid \ CellsOf(block.gridRow, block.gridCol, block.gridCells)

(* ---------------- allocator ---------------- *)
cellsNeededFor(enemySize) == Ceil(enemySize, GRID_CELL_SIZE)

\* a fault: the allFree loop without the test of the right edge
allFreeNoEdge(grid, row, col, n) ==
  \A dc \in 0..(n - 1), dr \in 0..(n - 1) :
    ~isGridCellOccupied(grid, row + dr, col + dc)

\* the allFree loop of findAvailableGridCell
allFree(grid, row, col, n) ==
  \A dc \in 0..(n - 1), dr \in 0..(n - 1) :
    ~(col + dc >= GRID_COLUMNS \/ isGridCellOccupied(grid, row + dr, col + dc))

\* rows 0..maxRow-1 outermost, the shuffled columns innermost; the first fit wins
findAvailableGridCell(grid, enemySize, columns) ==
  LET n == cellsNeededFor(enemySize)
      fitRows == {r \in 0..(maxRow - 1) :
                    \E k \in 1..Len(columns) : allFree(grid, r, columns[k], n)}
  IN  IF fitRows = {} THEN NoSpace
      ELSE LET r == CHOOSE x \in fitRows : \A y \in fitRows : x <= y
               ks == {k \in 1..Len(columns) : allFree(grid, r, columns[k], n)}
               k == CHOOSE x \in ks : \A y \in ks : x <= y
           IN  [col |-> columns[k], row |-> r, cellsNeeded |-> n]

(* ---------------- the game state as one record ---------------- *)
State ==
  [ blocks |-> blocks, bullets |-> bullets, grid |-> gridOccupied,
    gameOver |-> gameOver, gamePaused |-> gamePaused,
    showUpgradeMenu |-> showUpgradeMenu, score |-> score, kills |-> kills,
    requiredKills |-> requiredKills, level |-> level,
    bulletDamage |-> bulletDamage,
    bulletSpeedMultiplier |-> bulletSpeedMultiplier, maxBounces |-> maxBounces,
    currentBlockSpeed |-> currentBlockSpeed,
    currentSpawnInterval |-> currentSpawnInterval,
    sinceShot |-> sinceShot, sinceSpawn |-> sinceSpawn, aim |-> aim,
    log |-> << >> ]

Install(g) ==
  /\ blocks' = g.blocks
  /\ bullets' = g.bullets
  /\ gridOccupied' = g.grid
  /\ gameOver' = g.gameOver
  /\ gamePaused' = g.gamePaused
  /\ showUpgradeMenu' = g.showUpgradeMenu
  /\ score' = g.score
  /\ kills' = g.kills
  /\ requiredKills' = g.requiredKills
  /\ level' = g.level
  /\ bulletDamage' = g.bulletDamage
  /\ bulletSpeedMultiplier' = g.bulletSpeedMultiplier
  /\ maxBounces' = g.maxBounces
  /\ currentBlockSpeed' = g.currentBlockSpeed
  /\ currentSpawnInterval' = g.currentSpawnInterval
  /\ sinceShot' = g.sinceShot
  /\ sinceSpawn' = g.sinceSpawn
  /\ aim' = g.aim
  /\ log' = g.log

\* Date.now() has advanced by dt since the last frame
Elapse(g, dt) ==
  [g EXCEPT !.sinceShot = Min(@ + dt, BULLET_COOLDOWN),
            !.sinceSpawn = Min(@ + dt, BLOCK_SPAWN_INTERVAL)]

(* ---------------- firing ---------------- *)
\* Math.sqrt, for the squares the drags of the model produce
Sqrt(n) == CHOOSE r \in 0..n : r * r <= n /\ n < (r + 1) * (r + 1)

\* the drag aimCurrent - aimStart, and its length
dragOf(a) == [dx |-> a.aimCurrentX - a.aimStartX, dy |-> a.aimCurrentY - a.aimStartY]
distanceOf(d) == Sqrt(d.dx * d.dx + d.dy * d.dy)

\* a fault: any drag, however short, sets the direction
significantAny(distance) == distance > 0
\* "if (distance >= 10)"
significant(distance) == distance >= 10

\* the aiming system after the direction update of a shot
aimAtShot(a) ==
  LET d == dragOf(a)
      distance == distanceOf(d)
  IN  IF a.isAiming /\ significant(distance)
      THEN [a EXCEPT !.lastDirX = (1000 * d.dx) \div distance,
                     !.lastDirY = (1000 * d.dy) \div distance]
      ELSE a

shootBulletInDirection(g) ==
  IF g.sinceShot < BULLET_COOLDOWN THEN g
  ELSE
    LET a == aimAtShot(g.aim)
        bulletSpeed == BASE_BULLET_SPEED * g.bulletSpeedMultiplier
        pushed == [bounces |-> 0, damage |-> g.bulletDamage,
                   vx |-> a.lastDirX * bulletSpeed, vy |-> a.lastDirY * bulletSpeed]
    IN  [g EXCEPT !.sinceShot = 0,
                  !.aim = a,
                  !.bullets = Append(@, [bounces |-> 0, damage |-> g.bulletDamage]),
                  !.log = Append(@, Ev("shoot", pushed, a.lastDirX, a.lastDirY))]

(* ---------------- spawning ---------------- *)
\* the object literal pushed by the spawn functions; deep is y > spawnZoneHeight
newBlock(size, width, isElite, hp, speed, pos, deep) ==
  [ size |-> size, width |-> width, isElite |-> isElite, hp |-> hp, maxHp |-> hp,
    speed |-> speed, gridCol |-> pos.col, gridRow |-> pos.row,
    gridCells |-> pos.cellsNeeded, gridFreed |-> FALSE, deep |-> deep ]

\* mark the cells, push the block
place(g, block, pos, how) ==
  [g EXCEPT !.grid = occupyBlock(@, pos),
            !.blocks = Append(@, block),
            !.log = Append(@, Ev("spawn", block, how, g.grid))]

\* a fault: the HP does not grow with the level
normalHpFlat(lvl) == NORMAL_ENEMY_HP_MULTIPLIER
normalHp(lvl) == lvl * NORMAL_ENEMY_HP_MULTIPLIER

\* the second enemy of a tick, with the first one's size and HP
secondSpawn(g, size, hp, speed, columns) ==
  LET secondGridPos == findAvailableGridCell(g.grid, size, columns)
  IN  IF secondGridPos = NoSpace
      THEN [g EXCEPT !.log = Append(@, Ev("nospace", NoBlock, "second", g.grid))]
      ELSE place(g, newBlock("LARGE", size, FALSE, hp, speed, secondGridPos, FALSE),
                 secondGridPos, "second")

\* the first search of a tick, as logged
firstSearch(g, coin) ==
  [g EXCEPT !.log[Len(g.log)].coin = coin]

\* a fault: a tick that found no cells leaves the timer running
spawnBlockKeepTimer(g, c1, c2, coin) ==
  IF g.sinceSpawn < g.currentSpawnInterval THEN g
  ELSE
    LET size == BLOCK_SIZES.LARGE
        hp == normalHp(g.level)
        gridPos == findAvailableGridCell(g.grid, size, c1)
    IN  IF gridPos = NoSpace
        THEN firstSearch([g EXCEPT !.log = Append(@, Ev("nospace", NoBlock, "normal",
                                                        g.grid))],
                         coin)
        ELSE
          LET g1 == firstSearch(place([g EXCEPT !.sinceSpawn = 0],
                                      newBlock("LARGE", size, FALSE, hp,
                                               g.currentBlockSpeed, gridPos, FALSE),
                                      gridPos, "normal"),
                                coin)
          IN  IF g.level >= SECOND_SPAWN_LEVEL /\ coin
              THEN secondSpawn(g1, size, hp, g.currentBlockSpeed, c2)
              ELSE g1

\* a fault: a tick that found no cells goes on to the second spawn
spawnBlockRetry(g, c1, c2, coin) ==
  IF g.sinceSpawn < g.currentSpawnInterval THEN g
  ELSE
    LET g0 == [g EXCEPT !.sinceSpawn = 0]
        size == BLOCK_SIZES.LARGE
        hp == normalHp(g.level)
        gridPos == findAvailableGridCell(g0.grid, size, c1)
        g1 == IF gridPos = NoSpace
              THEN [g0 EXCEPT !.log = Append(@, Ev("nospace", NoBlock, "normal", g0.grid))]
              ELSE place(g0, newBlock("LARGE", size, FALSE, hp,
                                      g.currentBlockSpeed, gridPos, FALSE),
                         gridPos, "normal")
    IN  IF g.level >= SECOND_SPAWN_LEVEL /\ coin
        THEN secondSpawn(firstSearch(g1, coin), size, hp, g.currentBlockSpeed, c2)
        ELSE firstSearch(g1, coin)

spawnBlock(g, c1, c2, coin) ==
  IF g.sinceSpawn < g.currentSpawnInterval THEN g
  ELSE
    LET g0 == [g EXCEPT !.sinceSpawn = 0]
        size == BLOCK_SIZES.LARGE
        hp == normalHp(g.level)
        gridPos == findAvailableGridCell(g0.grid, size, c1)
    IN  IF gridPos = NoSpace
        THEN firstSearch([g0 EXCEPT !.log = Append(@, Ev("nospace", NoBlock, "normal",
                                                         g0.grid))],
                         coin)
        ELSE
          LET g1 == firstSearch(place(g0, newBlock("LARGE", size, FALSE, hp,
                                                   g.currentBlockSpeed, gridPos, FALSE),
                                      gridPos, "normal"),
                                coin)
          IN  IF g.level >= SECOND_SPAWN_LEVEL /\ coin
              THEN secondSpawn(g1, size, hp, g.currentBlockSpeed, c2)
              ELSE g1

eliteHp(lvl) == lvl * ELITE_ENEMY_HP_MULTIPLIER
eliteSpeed(speed) == (speed * 8) \div 10

\* a fault: the elite is pushed at the first cell without the "no space" return
spawnEliteUnchecked(g, columns) ==
  LET eliteSize == BLOCK_SIZES.LARGE + g.level * ELITE_SIZE_GROWTH
      gridPos == [col |-> columns[1], row |-> 0,
                  cellsNeeded |-> cellsNeededFor(eliteSize)]
  IN  place(g, newBlock("ELITE", eliteSize, TRUE, eliteHp(g.level),
                        eliteSpeed(g.currentBlockSpeed), gridPos, FALSE),
            gridPos, "elite")

spawnEliteBlock(g, columns) ==
  LET eliteSize == BLOCK_SIZES.LARGE + g.level * ELITE_SIZE_GROWTH
      gridPos == findAvailableGridCell(g.grid, eliteSize, columns)
  IN  IF gridPos = NoSpace
      THEN [g EXCEPT !.log = Append(@, Ev("nospace", NoBlock, "elite", g.grid))]
      ELSE place(g, newBlock("ELITE", eliteSize, TRUE, eliteHp(g.level),
                             eliteSpeed(g.currentBlockSpeed), gridPos, FALSE),
                 gridPos, "elite")

splitTier(size) == IF size = "LARGE" THEN "MEDIUM" ELSE "SMALL"
\* a fault: Math.floor for Math.ceil
splitHpFloor(block) == block.maxHp \div 2
splitHp(block) == Ceil(block.maxHp, 2)

\* a fault: a child that found no cells is pushed all the same
splitChildBlind(g, block, columns) ==
  LET newSize == splitTier(block.size)
      gridPos == findAvailableGridCell(g.grid, BLOCK_SIZES[newSize], columns)
      child == newBlock(newSize, BLOCK_SIZES[newSize], FALSE, Ceil(block.maxHp, 2),
                        block.speed, gridPos, block.deep)
  IN  IF gridPos = NoSpace
      THEN [g EXCEPT !.blocks = Append(@, child),
                     !.log = Append(@, Ev("nospace", NoBlock, "child", g.grid))]
      ELSE place(g, child, gridPos, "child")

\* one child of splitBlock
splitChild(g, block, columns) ==
  LET newSize == splitTier(block.size)
      gridPos == findAvailableGridCell(g.grid, BLOCK_SIZES[newSize], columns)
  IN  IF gridPos = NoSpace
      THEN [g EXCEPT !.log = Append(@, Ev("nospace", NoBlock, "child", g.grid))]
      ELSE place(g, newBlock(newSize, BLOCK_SIZES[newSize], FALSE, splitHp(block),
                             block.speed, gridPos, block.deep),
                 gridPos, "child")

\* a fault: only the first child is tried
splitBlockOnce(g, block, c1, c2) ==
  IF block.isElite THEN g ELSE splitChild(g, block, c1)

splitBlock(g, block, c1, c2) ==
  IF block.isElite THEN g
  ELSE splitChild(splitChild(g, block, c1), block, c2)

(* ---------------- progression ---------------- *)
levelSpeed(lvl) == (BLOCK_SPEED * (100 + (lvl - 1) * 15)) \div 100
\* BLOCK_SPAWN_INTERVAL * Math.pow(0.9, n), exactly: the digits of 4000 * 9^n,
\* of which the lowest n are the decimal places
RECURSIVE decayed(_)
decayed(n) ==
  IF n = 0 THEN digitsOf(BLOCK_SPAWN_INTERVAL) ELSE timesDigits(decayed(n - 1), 9, 0)
wholeOf(n) == valueOf(SubSeq(decayed(n), n + 1, Len(decayed(n))))
hasFraction(n) == \E k \in 1..n : decayed(n)[k] # 0

\* a fault: the interval without Math.max(500, ...)
levelIntervalNoFloor(lvl) ==
  wholeOf(lvl - 1) + (IF hasFraction(lvl - 1) THEN 1 ELSE 0)

\* the interval in whole milliseconds, rounded up: the spawner compares it with
\* a difference of two Date.now() values
levelInterval(lvl) ==
  Max(MIN_SPAWN_INTERVAL,
      wholeOf(lvl - 1) + (IF hasFraction(lvl - 1) THEN 1 ELSE 0))

\* a fault: levelUp() without "showUpgradeMenu = true"
levelUpNoMenu(g, columns) ==
  LET g1 == [g EXCEPT !.level = @ + 1,
                      !.requiredKills = @ + KILLS_INCREMENT_PER_LEVEL,
                      !.kills = 0,
                      !.gamePaused = TRUE,
                      !.currentBlockSpeed = levelSpeed(g.level + 1),
                      !.currentSpawnInterval = levelInterval(g.level + 1),
                      !.log = Append(@, Ev("levelup", NoBlock, g.kills, g.requiredKills))]
  IN  spawnEliteBlock(g1, columns)

\* a fault: levelUp() without "kills = 0"
levelUpKeepTally(g, columns) ==
  LET g1 == [g EXCEPT !.level = @ + 1,
                      !.requiredKills = @ + KILLS_INCREMENT_PER_LEVEL,
                      !.gamePaused = TRUE,
                      !.showUpgradeMenu = TRUE,
                      !.currentBlockSpeed = levelSpeed(g.level + 1),
                      !.currentSpawnInterval = levelInterval(g.level + 1),
                      !.log = Append(@, Ev("levelup", NoBlock, g.kills, g.requiredKills))]
  IN  spawnEliteBlock(g1, columns)

levelUp(g, columns) ==
  LET g1 == [g EXCEPT !.level = @ + 1,
                      !.requiredKills = @ + KILLS_INCREMENT_PER_LEVEL,
                      !.kills = 0,
                      !.gamePaused = TRUE,
                      !.showUpgradeMenu = TRUE,
                      !.currentBlockSpeed = levelSpeed(g.level + 1),
                      !.currentSpawnInterval = levelInterval(g.level + 1),
                      !.log = Append(@, Ev("levelup", NoBlock, g.kills, g.requiredKills))]
  IN  spawnEliteBlock(g1, columns)

\* a fault: applyUpgrade() without "gamePaused = false"
applyUpgradeKeepPause(g, upgradeType) ==
  LET g1 == CASE upgradeType = "damage" -> [g EXCEPT !.bulletDamage = @ + 1]
              [] upgradeType = "speed" ->
                   [g EXCEPT !.bulletSpeedMultiplier = @ + SPEED_UPGRADE_INCREMENT]
              [] upgradeType = "bounce" -> [g EXCEPT !.maxBounces = @ + 1]
              [] OTHER -> g
  IN  [g1 EXCEPT !.showUpgradeMenu = FALSE]

applyUpgrade(g, upgradeType) ==
  LET g1 == CASE upgradeType = "damage" -> [g EXCEPT !.bulletDamage = @ + 1]
              [] upgradeType = "speed" ->
                   [g EXCEPT !.bulletSpeedMultiplier = @ + SPEED_UPGRADE_INCREMENT]
              [] upgradeType = "bounce" -> [g EXCEPT !.maxBounces = @ + 1]
              [] OTHER -> g
  IN  [g1 EXCEPT !.showUpgradeMenu = FALSE, !.gamePaused = FALSE]

(* ---------------- update(): projectiles ---------------- *)
\* a fault: the projectile loop bounces without ever removing
advanceBulletsNoCull(g, walls) ==
  [g EXCEPT !.bullets = [i \in 1..Len(g.bullets) |->
                           [g.bullets[i] EXCEPT !.bounces = @ + walls[i]]]]

\* the projectile loop: walls[i] walls touched by projectile i after its move
advanceBullets(g, walls) ==
  LET moved == [i \in 1..Len(g.bullets) |->
                  [g.bullets[i] EXCEPT !.bounces = @ + walls[i]]]
      stays(b) == ~(b.bounces > g.maxBounces)
  IN  [g EXCEPT !.bullets = SelectSeq(moved, stays)]

(* ---------------- update(): enemies ---------------- *)
\* a fault: the enemy loop goes on past an enemy beyond the bottom edge
RECURSIVE advanceBlocksNoEnd(_, _, _)
advanceBlocksNoEnd(g, i, ymove) ==
  IF i = 0 THEN g
  ELSE
    LET block == g.blocks[i]
        beyondZone == block.deep \/ ymove[i] # "stay"
        frees == ~block.gridFreed /\ beyondZone
        moved == [block EXCEPT !.deep = beyondZone, !.gridFreed = @ \/ frees]
        g1 == [g EXCEPT !.blocks[i] = moved,
                        !.grid = IF frees THEN freeBlock(@, block) ELSE @,
                        !.log = IF ymove[i] = "bottom"
                                THEN Append(@, Ev("bottom", moved, i, 0)) ELSE @]
    IN  advanceBlocksNoEnd(g1, i - 1, ymove)

\* the enemy loop from index i down; ymove[i] is where block i's y now lies
RECURSIVE advanceBlocks(_, _, _)
advanceBlocks(g, i, ymove) ==
  IF i = 0 THEN g
  ELSE
    LET block == g.blocks[i]
        beyondZone == block.deep \/ ymove[i] # "stay"
        frees == ~block.gridFreed /\ beyondZone
        moved == [block EXCEPT !.deep = beyondZone, !.gridFreed = @ \/ frees]
        g1 == [g EXCEPT !.blocks[i] = moved,
                        !.grid = IF frees THEN freeBlock(@, block) ELSE @]
    IN  IF ymove[i] = "bottom"
        THEN [g1 EXCEPT !.gameOver = TRUE,
                        !.log = Append(@, Ev("bottom", moved, i, 0))]
        ELSE advanceBlocks(g1, i - 1, ymove)

(* ---------------- update(): collisions ---------------- *)
\* a fault: an enemy is spliced out only below 0
isDestroyedBelowZero(hp) == hp < 0
isDestroyed(hp) == hp <= 0
\* a fault: every destroyed enemy counts
countsEveryKill(block) == TRUE
countsAsKill(block) == block.size = "SMALL" \/ block.isElite
splits(block) == block.size # "SMALL" /\ ~block.isElite
\* a fault: every enemy is worth a SMALL one
pointsFlat(block) == SCORE_SMALL
points(block) ==
  IF block.isElite THEN SCORE_ELITE
  ELSE IF block.size = "LARGE" THEN SCORE_LARGE
  ELSE IF block.size = "MEDIUM" THEN SCORE_MEDIUM
  ELSE SCORE_SMALL

\* the cells a destroyed block frees
deathFree(grid, block) == freeBlock(grid, block)

\* the body of "if (block.hp <= 0)" for block j, already damaged from hpBefore
destroyBlock(g, j, hpBefore, columns) ==
  LET block == g.blocks[j]
      g1 == [g EXCEPT !.grid = deathFree(@, block),
                      !.blocks = RemoveAt(@, j),
                      !.log = Append(@, [Ev("destroy", block, hpBefore,
                                            g.grid \ deathFree(g.grid, block))
                                           EXCEPT !.at = j])]
      g2 == IF countsAsKill(block)
            THEN LET gk == [g1 EXCEPT !.kills = @ + 1]
                 IN  IF gk.kills >= gk.requiredKills THEN levelUp(gk, columns) ELSE gk
            ELSE g1
      g3 == IF splits(block) THEN splitBlock(g2, block, columns, columns) ELSE g2
  IN  [g3 EXCEPT !.score = @ + points(block)]

\* projectile i has hit block j
hitBlock(g, i, j, columns) ==
  LET bullet == g.bullets[i]
      block == g.blocks[j]
      hurt == [block EXCEPT !.hp = @ - bullet.damage]
      g1 == [g EXCEPT !.blocks[j] = hurt,
                      !.bullets[i].bounces = @ + 1]
      g2 == IF isDestroyed(hurt.hp) THEN destroyBlock(g1, j, block.hp, columns)
            ELSE IF g.gamePaused
                 THEN [g1 EXCEPT !.log = Append(@, Ev("hit", hurt, block.hp, NoBlock))]
                 ELSE g1
  IN  IF g2.bullets[i].bounces > g2.maxBounces
      THEN [g2 EXCEPT !.bullets = RemoveAt(@, i)]
      ELSE g2

\* block j is an elite pushed at row 0 in this collision pass: its box ends at
\* y = 0 and no projectile, whose y is at least 0, overlaps it
aboveField(g, j) ==
  /\ g.blocks[j].isElite
  /\ g.blocks[j].gridRow = 0
  /\ \E k \in 1..Len(g.log) : g.log[k].type = "spawn" /\ g.log[k].block = g.blocks[j]

\* a fault: the inner loop without its break, for a projectile that is still alive
RECURSIVE scanBlocksNoBreak(_, _, _, _, _)
scanBlocksNoBreak(g, i, j, overlaps, columns) ==
  IF j = 0 THEN g
  ELSE IF j \in overlaps
       THEN LET h == hitBlock(g, i, j, columns)
            IN  IF Len(h.bullets) = Len(g.bullets)
                THEN scanBlocksNoBreak(h, i, j - 1, overlaps, columns)
                ELSE h
       ELSE scanBlocksNoBreak(g, i, j - 1, overlaps, columns)

\* the inner loop for projectile i from block j down; overlaps holds the indices
\* of the blocks whose box checkCubeCollision finds overlapping the projectile's
RECURSIVE scanBlocks(_, _, _, _, _)
scanBlocks(g, i, j, overlaps, columns) ==
  IF j = 0 THEN g
  ELSE IF j \in overlaps /\ ~aboveField(g, j)
       THEN hitBlock(g, i, j, columns)
       ELSE scanBlocks(g, i, j - 1, overlaps, columns)

\* the collision loops from projectile i down; hit[i] is what projectile i overlaps
RECURSIVE collide(_, _, _, _)
collide(g, i, hit, columns) ==
  IF i = 0 THEN g
  ELSE collide(scanBlocks(g, i, Len(g.blocks), hit[i], columns), i - 1, hit, columns)

(* ---------------- initGame() ---------------- *)
\* nobody aims, and the direction is straight up
NoAim ==
  [ isAiming |-> FALSE, aimStartX |-> 0, aimStartY |-> 0,
    aimCurrentX |-> 0, aimCurrentY |-> 0, lastDirX |-> 0, lastDirY |-> -1000 ]

\* a fault: initGame() without "bulletDamage = 1"
initGameKeepDamage(g) ==
  [g EXCEPT !.gameOver = FALSE, !.gamePaused = FALSE, !.showUpgradeMenu = FALSE,
            !.score = 0, !.kills = 0, !.requiredKills = INITIAL_REQUIRED_KILLS,
            !.level = 1, !.bulletSpeedMultiplier = 100,
            !.maxBounces = 0, !.bullets = << >>, !.blocks = << >>,
            !.currentBlockSpeed = BLOCK_SPEED,
            !.currentSpawnInterval = BLOCK_SPAWN_INTERVAL,
            !.aim = NoAim]

initGame(g) ==
  [g EXCEPT !.gameOver = FALSE, !.gamePaused = FALSE, !.showUpgradeMenu = FALSE,
            !.score = 0, !.kills = 0, !.requiredKills = INITIAL_REQUIRED_KILLS,
            !.level = 1, !.bulletDamage = 1, !.bulletSpeedMultiplier = 100,
            !.maxBounces = 0, !.bullets = << >>, !.blocks = << >>,
            !.currentBlockSpeed = BLOCK_SPEED,
            !.currentSpawnInterval = BLOCK_SPAWN_INTERVAL,
            !.aim = NoAim]

\* no projectile is followed
NoFlight == [shots |-> << >>, enemies |-> << >>]

(* ---------------- the state machine ---------------- *)
Init ==
  /\ blocks = << >>
  /\ bullets = << >>
  /\ gridOccupied = {}
  /\ gameOver = FALSE
  /\ gamePaused = FALSE
  /\ showUpgradeMenu = FALSE
  /\ score = 0
  /\ kills = 0
  /\ requiredKills = INITIAL_REQUIRED_KILLS
  /\ level = 1
  /\ bulletDamage = 1
  /\ bulletSpeedMultiplier = 100
  /\ maxBounces = 0
  /\ currentBlockSpeed = BLOCK_SPEED
  /\ currentSpawnInterval = BLOCK_SPAWN_INTERVAL
  /\ sinceShot = BULLET_COOLDOWN
  /\ sinceSpawn = BLOCK_SPAWN_INTERVAL
  /\ aim = NoAim
  /\ runs = 1
  /\ pending = 1
  /\ rect = [width |-> 768, height |-> 1024]
  /\ boxes = << >>
  /\ flight = NoFlight
  /\ log = << >>

(* ---- the inputs of a frame, bounded ---- *)
\* The ways of playing bound what a frame may see:
\*   dts       the milliseconds that may pass between two frames
\*   shuffles  the column orders Math.random may produce
\*   oldest    whether a projectile may overlap the oldest enemy (it may always
\*             overlap the newest enemy, an elite, or none)
\*   crossing  whether the oldest enemy's y may pass the spawn zone and the bottom
\*   crossFrom the level from which it may do so
\*   holdFire  whether projectiles miss while the grid has room for a LARGE enemy
\*   volley    whether the projectiles in flight meet the oldest enemy left, one
\*             after the other in the same frame, or all miss
\*   sure      whether every projectile meets the newest enemy before any wall
\*             (and a wall when there is no enemy)
\* and how many enemies, projectiles and levels the run may reach.
PlayInputs ==
  [ dts |-> {200, 4000}, shuffles |-> Shuffles,
    oldest |-> FALSE, crossing |-> FALSE, crossFrom |-> 1, holdFire |-> FALSE, volley |-> FALSE, sure |-> FALSE,
    maxBlocks |-> MaxBlocks, maxBullets |-> MaxBullets, maxLevel |-> MaxLevel ]
ZoneInputs ==
  [ dts |-> {1000, 4000}, shuffles |-> Shuffles,
    oldest |-> TRUE, crossing |-> TRUE, crossFrom |-> 1, holdFire |-> FALSE, volley |-> FALSE, sure |-> FALSE,
    maxBlocks |-> MaxBlocks, maxBullets |-> MaxBullets - 1, maxLevel |-> MaxLevel - 1 ]
CrowdInputs ==
  [ dts |-> {200, 4000}, shuffles |-> Shuffles,
    oldest |-> FALSE, crossing |-> FALSE, crossFrom |-> 1, holdFire |-> TRUE, volley |-> FALSE, sure |-> FALSE,
    maxBlocks |-> MaxCrowd, maxBullets |-> MaxBullets - 1, maxLevel |-> MaxLevel ]
LateInputs ==
  [ dts |-> {200}, shuffles |-> Shuffles,
    oldest |-> FALSE, crossing |-> TRUE, crossFrom |-> MaxLevel,
    holdFire |-> FALSE, volley |-> FALSE, sure |-> TRUE,
    maxBlocks |-> MaxBlocks, maxBullets |-> MaxBullets + 1, maxLevel |-> MaxLevel ]
SurgeInputs ==
  [ dts |-> {200}, shuffles |-> Shuffles,
    oldest |-> FALSE, crossing |-> FALSE, crossFrom |-> 1,
    holdFire |-> FALSE, volley |-> FALSE, sure |-> TRUE,
    maxBlocks |-> MaxCrowd, maxBullets |-> MaxBullets + 1, maxLevel |-> MaxLevel + 1 ]
AimInputs ==
  [ dts |-> {100}, shuffles |-> Shuffles,
    oldest |-> FALSE, crossing |-> FALSE, crossFrom |-> 1,
    holdFire |-> FALSE, volley |-> FALSE, sure |-> TRUE,
    maxBlocks |-> MaxBlocks, maxBullets |-> MaxBullets, maxLevel |-> MaxLevel ]
BarrageInputs ==
  [ dts |-> {200}, shuffles |-> Shuffles,
    oldest |-> TRUE, crossing |-> FALSE, crossFrom |-> 1,
    holdFire |-> FALSE, volley |-> TRUE, sure |-> TRUE,
    maxBlocks |-> 4 * MaxWave, maxBullets |-> MaxVolley + 1, maxLevel |-> MaxLevel + 1 ]
PixelInputs ==
  [ dts |-> {16}, shuffles |-> Shuffles,
    oldest |-> FALSE, crossing |-> FALSE, crossFrom |-> 1,
    holdFire |-> FALSE, volley |-> FALSE, sure |-> TRUE,
    maxBlocks |-> MaxBlocks, maxBullets |-> MaxBullets - 1, maxLevel |-> MaxLevel - 1 ]

First(S) == CHOOSE x \in S : TRUE

\* walls a projectile may touch: none, one, or two at a corner
WallChoices(in, g) ==
  [1..Len(g.bullets) -> IF ~in.sure THEN 0..2
                        ELSE IF Len(g.blocks) = 0 THEN {1} ELSE {0}]

\* where the enemies' y may lie after the step: the oldest enemy is the lowest,
\* it alone may be seen leaving the spawn zone or the play field
YMoves(in, g) ==
  LET stay == [i \in 1..Len(g.blocks) |-> "stay"]
  IN  IF Len(g.blocks) = 0 \/ ~in.crossing \/ g.level < in.crossFrom THEN {stay}
      ELSE {stay, [stay EXCEPT ![1] = IF g.blocks[1].deep THEN "bottom" ELSE "zone"]}

hasRoom(in, g) ==
  findAvailableGridCell(g.grid, BLOCK_SIZES.LARGE, First(in.shuffles)) # NoSpace

\* the enemies a projectile overlaps: none, one of the newest, the elites and
\* the oldest, or all of these at once
HitChoices(in, g) ==
  LET elites == {j \in 1..Len(g.blocks) : g.blocks[j].isElite}
      newest == {Len(g.blocks)} \ {0}
      targets == newest \cup elites \cup (IF in.oldest /\ Len(g.blocks) > 0 THEN {1} ELSE {})
      choices == IF in.holdFire /\ hasRoom(in, g) THEN {{}}
                 ELSE IF in.sure THEN {newest}
                 ELSE {{}, targets} \cup {{t} : t \in targets}
  IN  IF in.volley
      THEN {[i \in 1..Len(g.bullets) |-> {}], [i \in 1..Len(g.bullets) |-> {1}]}
      ELSE [1..Len(g.bullets) -> choices]

\* the column order matters only to a step that searches the grid
spawnDue(g) == ~(g.sinceSpawn < g.currentSpawnInterval)
destroys(g, hit) ==
  \E i \in 1..Len(g.bullets) :
    \E j \in hit[i] : g.blocks[j].hp <= g.bullets[i].damage

WithinBounds(in, g) ==
  /\ Len(g.blocks) <= in.maxBlocks
  /\ Len(g.bullets) <= in.maxBullets
  /\ g.level <= in.maxLevel

\* a fault: update() runs while the upgrade menu is open
haltedOnlyOver(g) == g.gameOver
\* the guard of update()
halted(g) == g.gameOver \/ g.gamePaused

\* the host's queue of frame callbacks after one more request
requestAnimationFrame(p) == p + 1

\* update() after dt more milliseconds
Frame(in) ==
  \E dt \in in.dts :
    \E g0 \in {Elapse(State, dt)} :
      IF halted(g0)
      THEN Install(g0) /\ runs' = runs
      ELSE
        \E c1 \in (IF spawnDue(g0) THEN in.shuffles ELSE {First(in.shuffles)}),
           coin \in (IF spawnDue(g0) /\ g0.level >= SECOND_SPAWN_LEVEL
                     THEN BOOLEAN ELSE {FALSE}) :
          \E g2 \in {spawnBlock(shootBulletInDirection(g0), c1, c1, coin)} :
            \E walls \in WallChoices(in, g2) :
              \E g3 \in {advanceBullets(g2, walls)} :
                \E ymove \in YMoves(in, g3) :
                  \E g4 \in {advanceBlocks(g3, Len(g3.blocks), ymove)} :
                    IF g4.gameOver
                    THEN WithinBounds(in, g4) /\ Install(g4) /\ runs' = runs
                    ELSE
                      \E hit \in HitChoices(in, g4) :
                        \E c2 \in (IF destroys(g4, hit) THEN in.shuffles
                                   ELSE {First(in.shuffles)}) :
                          \E g5 \in {collide(g4, Len(g4.bullets), hit, c2)} :
                            /\ WithinBounds(in, g5)
                            /\ Install(g5)
                            /\ runs' = runs

\* gameLoop(): one callback is taken from the queue, update() runs, the callback
\* requests itself again
gameLoop(in) ==
  /\ pending > 0
  /\ Frame(in)
  /\ pending' = requestAnimationFrame(pending - 1)

\* the upgrade menu's click and touch handlers
UpgradeClick ==
  /\ showUpgradeMenu
  /\ \E upgradeType \in {"damage", "speed", "bounce"} :
       \E g1 \in {applyUpgrade(State, upgradeType)} : Install(g1)
  /\ runs' = runs
  /\ pending' = pending
  /\ UNCHANGED << rect, boxes, flight >>

\* the click handler's restart
RestartClick ==
  /\ gameOver
  /\ runs < MaxRuns
  /\ \E g1 \in {initGame(State)} : Install(g1)
  /\ runs' = runs + 1
  /\ pending' = requestAnimationFrame(pending)
  /\ rect' = rect
  /\ boxes' = << >>
  /\ flight' = flight

\* a run whose enemies are destroyed inside the spawn zone
PlayFrame == gameLoop(PlayInputs) /\ UNCHANGED << rect, boxes, flight >>
Next == PlayFrame \/ UpgradeClick
Spec == Init /\ [][Next]_vars

\* runs whose oldest enemy may leave the spawn zone and reach the bottom
ZoneFrame == gameLoop(ZoneInputs) /\ UNCHANGED << rect, boxes, flight >>
NextZone == ZoneFrame \/ RestartClick
SpecZone == Init /\ [][NextZone]_vars

\* a run in which the player lets the grid fill
CrowdFrame == gameLoop(CrowdInputs) /\ UNCHANGED << rect, boxes, flight >>
NextCrowd == CrowdFrame \/ UpgradeClick
SpecCrowd == Init /\ [][NextCrowd]_vars

\* runs in which every projectile hits the newest enemy until the level-up;
\* from then on the oldest enemy may leave the spawn zone and reach the bottom
LateFrame == gameLoop(LateInputs) /\ UNCHANGED << rect, boxes, flight >>
NextLate == LateFrame \/ UpgradeClick \/ RestartClick
SpecLate == Init /\ [][NextLate]_vars

\* runs in which every projectile hits the newest enemy, up to the third level
SurgeFrame == gameLoop(SurgeInputs) /\ UNCHANGED << rect, boxes, flight >>
NextSurge == SurgeFrame \/ UpgradeClick
SpecSurge == Init /\ [][NextSurge]_vars

(* ---------------- aiming ---------------- *)
\* where a finger or the mouse may go down, and where it may move to
TouchStarts == { <<100, 100>> }
TouchPoints == { <<100, 100>>, <<103, 104>>, <<106, 108>>, <<92, 106>> }

\* a handler that changes the aiming system only
Aiming(a) ==
  /\ \E g1 \in {[State EXCEPT !.aim = a]} : Install(g1)
  /\ runs' = runs
  /\ pending' = pending
  /\ UNCHANGED << rect, boxes, flight >>

\* handleTouchStart and handleMouseDown
handleTouchStart ==
  /\ ~(showUpgradeMenu \/ gameOver)
  /\ \E p \in TouchStarts :
       Aiming([aim EXCEPT !.isAiming = TRUE,
                          !.aimStartX = p[1], !.aimStartY = p[2],
                          !.aimCurrentX = p[1], !.aimCurrentY = p[2]])

\* handleTouchMove and handleMouseMove
handleTouchMove ==
  /\ aim.isAiming
  /\ \E p \in TouchPoints \ {<< aim.aimCurrentX, aim.aimCurrentY >>} :
       Aiming([aim EXCEPT !.aimCurrentX = p[1], !.aimCurrentY = p[2]])

\* handleTouchEnd and handleMouseUp
handleTouchEnd ==
  /\ aim.isAiming
  /\ Aiming([aim EXCEPT !.isAiming = FALSE])

\* runs in which the player drags to aim; a shot every second frame
AimFrame == gameLoop(AimInputs) /\ UNCHANGED << rect, boxes, flight >>
NextAim ==
  AimFrame \/ UpgradeClick \/ handleTouchStart \/ handleTouchMove \/ handleTouchEnd
SpecAim == Init /\ [][NextAim]_vars

(* ---------------- pixel positions ---------------- *)
\* the widths the canvas may have
Widths == {320, 375, 768}

spawnZoneHeight == 10 * GRID_CELL_SIZE

\* gridToPixel: x in 1/16 px (columnWidth = playAreaWidth / 8, and the cell is
\* centred in its column), y in px
gridToPixel(r, col, row) ==
  LET safeAreaLeft == EXTRA_LATERAL_SAFE_AREA
      safeAreaRight == EXTRA_LATERAL_SAFE_AREA
      playAreaWidth == r.width - safeAreaLeft - safeAreaRight
  IN  [ x |-> 2 * GRID_COLUMNS * safeAreaLeft + 2 * col * playAreaWidth
                + (playAreaWidth - GRID_COLUMNS * GRID_CELL_SIZE),
        y |-> row * GRID_CELL_SIZE ]

\* x, y and width of the literal pushed by spawnBlock and spawnEliteBlock
spawnBox(r, block) ==
  LET pixelPos == gridToPixel(r, block.gridCol, block.gridRow)
  IN  [ x |-> pixelPos.x, y |-> 1000 * (pixelPos.y - block.width),
        width |-> block.width, speed |-> block.speed ]

\* x, y and width of the literal pushed by splitBlock: "y: block.y"
childBox(r, block, parentY) ==
  [spawnBox(r, block) EXCEPT !.y = parentY]

\* e is a search made by spawnBlock
IsSpawnerSearch(e) ==
  e.type \in {"spawn", "nospace"} /\ e.a \in {"normal", "second"}

\* e comes from the calls update() makes before its loops
IsBeforeLoops(e) == e.type = "shoot" \/ IsSpawnerSearch(e)

\* the boxes after the spawnBlock() events l[k..n]
RECURSIVE afterSpawns(_, _, _, _, _)
afterSpawns(bs, l, k, n, r) ==
  IF k > n THEN bs
  ELSE afterSpawns(IF l[k].type = "spawn" THEN Append(bs, spawnBox(r, l[k].block)) ELSE bs,
                   l, k + 1, n, r)

\* a fault: the enemy loop without "block.y += block.speed"
moveBoxesStuck(bs, l) == bs

\* "block.y += block.speed" for the enemies the loop reaches: all of them, or
\* those from the end of the array down to the one found beyond the bottom
moveBoxes(bs, l) ==
  LET ends == {k \in 1..Len(l) : l[k].type = "bottom"}
      from == IF ends = {} THEN 1 ELSE l[CHOOSE k \in ends : TRUE].a
  IN  [i \in 1..Len(bs) |-> IF i >= from THEN [bs[i] EXCEPT !.y = @ + bs[i].speed]
                            ELSE bs[i]]

\* the boxes after the collision events l[k..]: a destroyed enemy is spliced
\* out, an elite is pushed at its cell, a child at its cell's x and the y of
\* the enemy destroyed last
RECURSIVE afterCollisions(_, _, _, _, _)
afterCollisions(bs, l, k, parentY, r) ==
  IF k > Len(l) THEN bs
  ELSE IF l[k].type = "destroy"
       THEN afterCollisions(RemoveAt(bs, l[k].at), l, k + 1, bs[l[k].at].y, r)
       ELSE IF l[k].type = "spawn"
            THEN afterCollisions(
                   Append(bs, IF l[k].a = "child" THEN childBox(r, l[k].block, parentY)
                              ELSE spawnBox(r, l[k].block)),
                   l, k + 1, parentY, r)
            ELSE afterCollisions(bs, l, k + 1, parentY, r)

\* the boxes after an update() that did what l tells
trackBoxes(bs, l, r) ==
  LET n == Cardinality({k \in 1..Len(l) : IsBeforeLoops(l[k])})
  IN  afterCollisions(moveBoxes(afterSpawns(bs, l, 1, n, r), l), l, n + 1, 0, r)

\* the window is resized, or the device turned: resizeCanvas()
Resize ==
  /\ \E w \in Widths \ {rect.width} : rect' = [rect EXCEPT !.width = w]
  /\ UNCHANGED << blocks, bullets, gridOccupied, gameOver, gamePaused,
                  showUpgradeMenu, score, kills, requiredKills, level, bulletDamage,
                  bulletSpeedMultiplier, maxBounces, currentBlockSpeed,
                  currentSpawnInterval, sinceShot, sinceSpawn, aim, runs, pending,
                  boxes, flight, log >>

\* runs at 60 frames a second that keep the pixel position of every enemy; what
\* the enemy loop finds (beyond the spawn zone, beyond the bottom) is what the
\* positions say
PixelFrame ==
  /\ gameLoop(PixelInputs)
  /\ rect' = rect
  /\ flight' = flight
  /\ boxes' = IF halted(State) THEN boxes ELSE trackBoxes(boxes, log', rect)
  /\ \A i \in 1..Len(blocks') :
       blocks'[i].deep = (boxes'[i].y > 1000 * spawnZoneHeight)
  /\ gameOver' = \E i \in 1..Len(boxes') : boxes'[i].y > 1000 * rect.height
NextPixel == PixelFrame \/ Resize
SpecPixel == Init /\ [][NextPixel]_vars

(* ---------------- the descent ---------------- *)
\* runs at 60 frames a second in which the enemies come down to the bottom.
\* The player either never hits, or starts hitting the oldest enemy with one
\* of the first shots and then hits it with every shot until the first level
\* is won; a projectile that does not hit leaves by a wall
FirstShots == 3
Canvases == { [width |-> 320, height |-> 480] }

\* what the enemy loop finds for each enemy, by the positions: it adds the
\* speed to y and compares with the spawn zone and with the bottom edge
descents(bs, r) ==
  [i \in 1..Len(bs) |->
     IF bs[i].y + bs[i].speed > 1000 * r.height THEN "bottom"
     ELSE IF bs[i].y + bs[i].speed > 1000 * spawnZoneHeight THEN "zone"
     ELSE "stay"]

\* whether the projectiles of this frame reach the oldest enemy
Strikes(g) ==
  IF Len(g.bullets) = 0 \/ Len(g.blocks) = 0 \/ g.level > 1 THEN {FALSE}
  ELSE IF g.score > 0 \/ g.blocks[1].hp < g.blocks[1].maxHp THEN {TRUE}
  ELSE IF Len(g.blocks) = 1 /\ g.sinceSpawn < FirstShots * BULLET_COOLDOWN
       THEN BOOLEAN
  ELSE {FALSE}

InitDescent ==
  /\ blocks = << >>
  /\ bullets = << >>
  /\ gridOccupied = {}
  /\ gameOver = FALSE
  /\ gamePaused = FALSE
  /\ showUpgradeMenu = FALSE
  /\ score = 0
  /\ kills = 0
  /\ requiredKills = INITIAL_REQUIRED_KILLS
  /\ level = 1
  /\ bulletDamage = 1
  /\ bulletSpeedMultiplier = 100
  /\ maxBounces = 0
  /\ currentBlockSpeed = BLOCK_SPEED
  /\ currentSpawnInterval = BLOCK_SPAWN_INTERVAL
  /\ sinceShot = BULLET_COOLDOWN
  /\ sinceSpawn = BLOCK_SPAWN_INTERVAL
  /\ aim = NoAim
  /\ runs = 1
  /\ pending = 1
  /\ rect \in Canvases
  /\ boxes = << >>
  /\ flight = NoFlight
  /\ log = << >>

DescentFrame ==
  /\ pending > 0
  /\ pending' = requestAnimationFrame(pending - 1)
  /\ runs' = runs
  /\ rect' = rect
  /\ flight' = flight
  /\ \E g0 \in {Elapse(State, 16)} :
       IF halted(g0)
       THEN Install(g0) /\ boxes' = boxes
       ELSE
         \E g2 \in {spawnBlock(shootBulletInDirection(g0),
                               First(Shuffles), First(Shuffles), FALSE)} :
           \E strikes \in Strikes(g2) :
             \E g3 \in {advanceBullets(g2, [i \in 1..Len(g2.bullets) |->
                                               IF strikes THEN 0 ELSE 1])} :
               \E ymove \in {descents(afterSpawns(boxes, g2.log, 1, Len(g2.log), rect),
                                      rect)} :
                 \E g4 \in {advanceBlocks(g3, Len(g3.blocks), ymove)} :
                   \E g5 \in {IF g4.gameOver THEN g4
                              ELSE collide(g4, Len(g4.bullets),
                                           [i \in 1..Len(g4.bullets) |->
                                              IF strikes THEN {1} ELSE {}],
                                           First(Shuffles))} :
                     /\ Install(g5)
                     /\ boxes' = trackBoxes(boxes, g5.log, rect)

\* the player picks an upgrade once the clocks of the paused game are full
DescentUpgrade ==
  /\ sinceShot = BULLET_COOLDOWN
  /\ sinceSpawn = BLOCK_SPAWN_INTERVAL
  /\ UpgradeClick

NextDescent == DescentFrame \/ DescentUpgrade
SpecDescent == InitDescent /\ [][NextDescent]_vars
\* a frame changes nothing: the game is over or paused, the clocks are full
\* and the last frame did nothing either
Idle ==
  /\ halted(State)
  /\ sinceShot = BULLET_COOLDOWN
  /\ sinceSpawn = BLOCK_SPAWN_INTERVAL
  /\ log = << >>

\* the browser keeps calling the frame back: weak fairness of the frame,
\* WF_vars(DescentFrame), with the states in which the frame changes nothing
\* written out; and the player eventually picks an upgrade from the menu
FairDescent ==
  /\ SpecDescent
  /\ []<><<DescentFrame>>_vars \/ []<>Idle
  /\ WF_vars(DescentUpgrade)

(* ---------------- projectiles in flight ---------------- *)
\* n px in the unit of the flight data, 1/80 px: 0.4 px, 4.2 px and 1/16 px are
\* whole numbers of it
Px(n) == 80 * n

player == [width |-> 80, height |-> 20]

\* resizeCanvas(): the player stands at the bottom centre (safeAreaBottom = 0)
playerAt(r) ==
  [ x |-> Px(r.width - player.width) \div 2,
    y |-> Px(r.height - player.height - 0 - 20) ]

\* the object literal of shootBulletInDirection, from what the shot logged
\* (velocity in 1/100000 px)
muzzle(r, pushed) ==
  [ x |-> playerAt(r).x + Px(player.width) \div 2 - Px(BULLET_WIDTH) \div 2,
    y |-> playerAt(r).y + Px(player.height) \div 2 - Px(BULLET_HEIGHT) \div 2,
    width |-> BULLET_WIDTH, height |-> BULLET_HEIGHT,
    vx |-> pushed.vx \div 1250, vy |-> pushed.vy \div 1250,
    bounces |-> pushed.bounces, damage |-> pushed.damage ]

\* a fault: the walls reflect without the clamp
advanceShotNoClamp(b, r) ==
  LET x1 == b.x + b.vx
      y1 == b.y + b.vy
      side == x1 <= 0 \/ x1 + Px(b.width) >= Px(r.width)
      ends == y1 <= 0 \/ y1 + Px(b.height) >= Px(r.height)
  IN  [b EXCEPT !.x = x1,
                !.y = y1,
                !.vx = IF side THEN -b.vx ELSE b.vx,
                !.vy = IF ends THEN -b.vy ELSE b.vy,
                !.bounces = @ + (IF side THEN 1 ELSE 0) + (IF ends THEN 1 ELSE 0)]

\* the body of the projectile loop up to the splice: move, then the left and
\* right walls, then the top and bottom walls
advanceShot(b, r) ==
  LET x1 == b.x + b.vx
      y1 == b.y + b.vy
      side == x1 <= 0 \/ x1 + Px(b.width) >= Px(r.width)
      ends == y1 <= 0 \/ y1 + Px(b.height) >= Px(r.height)
  IN  [b EXCEPT !.x = IF side THEN Max(0, Min(Px(r.width) - Px(b.width), x1)) ELSE x1,
                !.y = IF ends THEN Max(0, Min(Px(r.height) - Px(b.height), y1)) ELSE y1,
                !.vx = IF side THEN -b.vx ELSE b.vx,
                !.vy = IF ends THEN -b.vy ELSE b.vy,
                !.bounces = @ + (IF side THEN 1 ELSE 0) + (IF ends THEN 1 ELSE 0)]

\* a fault: the projectile loop without its splice
RECURSIVE flyStageKeep(_, _, _, _)
flyStageKeep(f, i, r, mb) ==
  IF i = 0 THEN f
  ELSE
    LET b == f.shots[i]
        moved == advanceShot(b, r)
        f1 == [f EXCEPT !.shots = [@ EXCEPT ![i] = moved],
                        !.log = Append(@, Ev("fly", moved, moved.bounces - b.bounces, b))]
    IN  flyStageKeep(f1, i - 1, r, mb)

\* the projectile loop on f from index i down: what each projectile was and
\* has become is logged as "fly"
RECURSIVE flyStage(_, _, _, _)
flyStage(f, i, r, mb) ==
  IF i = 0 THEN f
  ELSE
    LET b == f.shots[i]
        moved == advanceShot(b, r)
        f1 == [f EXCEPT !.shots = IF moved.bounces > mb THEN RemoveAt(@, i)
                                  ELSE [@ EXCEPT ![i] = moved],
                        !.log = Append(@, Ev("fly", moved, moved.bounces - b.bounces, b))]
    IN  flyStage(f1, i - 1, r, mb)

checkCubeCollision(bullet, block) ==
  /\ bullet.x < block.x + Px(block.width)
  /\ bullet.x + Px(bullet.width) > block.x
  /\ bullet.y < block.y + Px(block.height)
  /\ bullet.y + Px(bullet.height) > block.y

Abs(n) == IF n < 0 THEN -n ELSE n

\* a fault: the struck side's component is inverted, whatever its sign
reflectInvert(bullet, block) ==
  LET dx == (bullet.x + Px(bullet.width) \div 2) - (block.x + Px(block.width) \div 2)
      dy == (bullet.y + Px(bullet.height) \div 2) - (block.y + Px(block.height) \div 2)
      width == Px(bullet.width + block.width) \div 2
      height == Px(bullet.height + block.height) \div 2
      crossWidth == width * dy
      crossHeight == height * dx
  IN  IF Abs(dx) <= width /\ Abs(dy) <= height
      THEN IF crossWidth > crossHeight
           THEN IF crossWidth > -crossHeight
                THEN [bullet EXCEPT !.vy = -bullet.vy]
                ELSE [bullet EXCEPT !.vx = -bullet.vx]
           ELSE IF crossWidth > -crossHeight
                THEN [bullet EXCEPT !.vx = -bullet.vx]
                ELSE [bullet EXCEPT !.vy = -bullet.vy]
      ELSE bullet

\* "Calculate correct bounce physics based on collision side"
reflect(bullet, block) ==
  LET dx == (bullet.x + Px(bullet.width) \div 2) - (block.x + Px(block.width) \div 2)
      dy == (bullet.y + Px(bullet.height) \div 2) - (block.y + Px(block.height) \div 2)
      width == Px(bullet.width + block.width) \div 2
      height == Px(bullet.height + block.height) \div 2
      crossWidth == width * dy
      crossHeight == height * dx
  IN  IF Abs(dx) <= width /\ Abs(dy) <= height
      THEN IF crossWidth > crossHeight
           THEN IF crossWidth > -crossHeight
                THEN [bullet EXCEPT !.vy = Abs(bullet.vy)]
                ELSE [bullet EXCEPT !.vx = -Abs(bullet.vx)]
           ELSE IF crossWidth > -crossHeight
                THEN [bullet EXCEPT !.vx = Abs(bullet.vx)]
                ELSE [bullet EXCEPT !.vy = -Abs(bullet.vy)]
      ELSE bullet

\* the collision loops on f from projectile i down, for enemies that a hit
\* does not destroy: the first enemy overlapped in the reverse scan turns the
\* projectile, and the hit is logged as "strike"
RECURSIVE strikeStage(_, _, _)
strikeStage(f, i, mb) ==
  IF i = 0 THEN f
  ELSE
    LET bullet == f.shots[i]
        js == {j \in 1..Len(f.enemies) : checkCubeCollision(bullet, f.enemies[j])}
    IN  IF js = {} THEN strikeStage(f, i - 1, mb)
        ELSE
          LET j == CHOOSE x \in js : \A y \in js : y <= x
              turned == [reflect(bullet, f.enemies[j]) EXCEPT !.bounces = @ + 1]
              f1 == [f EXCEPT !.shots = IF turned.bounces > mb THEN RemoveAt(@, i)
                                        ELSE [@ EXCEPT ![i] = turned],
                              !.log = Append(@, Ev("strike", turned, f.enemies[j], bullet))]
          IN  strikeStage(f1, i - 1, mb)

\* the canvases, the aim directions (1/1000) and the enemies of these runs
Fields == { [width |-> 375, height |-> 667], [width |-> 768, height |-> 1024] }
Dirs ==
  { <<0, -1000>>, <<0, 1000>>, <<1000, 0>>, <<-1000, 0>>,
    <<600, -800>>, <<-600, -800>>, <<800, -600>>, <<-800, -600>>,
    <<600, 800>>, <<-600, 800>>, <<800, 600>>, <<-800, 600>> }
\* how far down the enemies have come, px
Descents == {300, 480}
\* most bounce upgrades taken
MaxBounce == 5

\* an enemy spawned on the cell (col, row), after its descent
standing(r, size, col, row, descent) ==
  LET pixelPos == gridToPixel(r, col, row)
  IN  [ x |-> 5 * pixelPos.x, y |-> Px(pixelPos.y - BLOCK_SIZES[size] + descent),
        width |-> BLOCK_SIZES[size], height |-> BLOCK_SIZES[size] ]

\* two LARGE enemies and a MEDIUM one
Standing(r, descent) ==
  << standing(r, "LARGE", 0, 0, descent), standing(r, "LARGE", 4, 0, descent),
     standing(r, "MEDIUM", 2, 2, descent) >>

\* a fresh game on one of the canvases, after some bounce upgrades, with the
\* enemies standing in the field; what the projectile stages read is the
\* canvas, maxBounces, the projectiles and the enemies' boxes
InitFlight ==
  /\ blocks = << >>
  /\ bullets = << >>
  /\ gridOccupied = {}
  /\ gameOver = FALSE
  /\ gamePaused = FALSE
  /\ showUpgradeMenu = FALSE
  /\ score = 0
  /\ kills = 0
  /\ requiredKills = INITIAL_REQUIRED_KILLS
  /\ level = 1
  /\ bulletDamage = 1
  /\ bulletSpeedMultiplier = 100
  /\ maxBounces \in 0..MaxBounce
  /\ currentBlockSpeed = BLOCK_SPEED
  /\ currentSpawnInterval = BLOCK_SPAWN_INTERVAL
  /\ sinceShot = BULLET_COOLDOWN
  /\ sinceSpawn = BLOCK_SPAWN_INTERVAL
  /\ aim = NoAim
  /\ runs = 1
  /\ pending = 1
  /\ rect \in Fields
  /\ boxes = << >>
  /\ \E descent \in Descents :
       flight = [shots |-> << >>, enemies |-> Standing(rect, descent)]
  /\ log = << >>

Untouched ==
  UNCHANGED << blocks, bullets, gridOccupied, gameOver, gamePaused, showUpgradeMenu,
               score, kills, requiredKills, level, bulletDamage,
               bulletSpeedMultiplier, maxBounces, currentBlockSpeed,
               currentSpawnInterval, sinceShot, sinceSpawn, aim, runs, pending,
               rect, boxes >>

\* shootBulletInDirection() with the aim on one of the directions, once the
\* projectile before is gone
FlightShot ==
  /\ flight.shots = << >>
  /\ \E d \in Dirs :
       \E g \in {shootBulletInDirection(
                    [State EXCEPT !.sinceShot = BULLET_COOLDOWN,
                                  !.aim.lastDirX = d[1], !.aim.lastDirY = d[2]])} :
         /\ flight' = [flight EXCEPT !.shots = << muzzle(rect, g.log[Len(g.log)].block) >>]
         /\ log' = g.log
  /\ Untouched

\* the projectile loop and the collision loops of update()
FlightFrame ==
  /\ flight.shots # << >>
  /\ \E f0 \in {[shots |-> flight.shots, enemies |-> flight.enemies, log |-> << >>]} :
       \E f1 \in {flyStage(f0, Len(f0.shots), rect, maxBounces)} :
         \E f2 \in {strikeStage(f1, Len(f1.shots), maxBounces)} :
           /\ flight' = [shots |-> f2.shots, enemies |-> f2.enemies]
           /\ log' = f2.log
  /\ Untouched

NextFlight == FlightShot \/ FlightFrame
SpecFlight == InitFlight /\ [][NextFlight]_vars

(* ---------------- a stream of projectiles ---------------- *)
\* the player holds one aim and the gun fires whenever the cooldown allows;
\* frames come every 16 ms and the enemies stand in the field
InitStream ==
  /\ blocks = << >>
  /\ bullets = << >>
  /\ gridOccupied = {}
  /\ gameOver = FALSE
  /\ gamePaused = FALSE
  /\ showUpgradeMenu = FALSE
  /\ score = 0
  /\ kills = 0
  /\ requiredKills = INITIAL_REQUIRED_KILLS
  /\ level = 1
  /\ bulletDamage = 1
  /\ bulletSpeedMultiplier = 100
  /\ maxBounces \in 0..MaxBounce
  /\ currentBlockSpeed = BLOCK_SPEED
  /\ currentSpawnInterval = BLOCK_SPAWN_INTERVAL
  /\ sinceShot = BULLET_COOLDOWN
  /\ sinceSpawn = BLOCK_SPAWN_INTERVAL
  /\ \E d \in Dirs : aim = [NoAim EXCEPT !.lastDirX = d[1], !.lastDirY = d[2]]
  /\ runs = 1
  /\ pending = 1
  /\ rect \in Canvases
  /\ boxes = << >>
  /\ \E descent \in Descents :
       flight = [shots |-> << >>, enemies |-> Standing(rect, descent)]
  /\ log = << >>

\* update() as far as the projectiles go: shootBulletInDirection(), the
\* projectile loop and the collision loops
StreamFrame ==
  /\ pending > 0
  /\ pending' = requestAnimationFrame(pending - 1)
  /\ ~halted(State)
  /\ \E g \in {shootBulletInDirection(Elapse(State, 16))} :
       \E f0 \in {[shots |-> IF g.log = << >> THEN flight.shots
                              ELSE Append(flight.shots,
                                          muzzle(rect, g.log[Len(g.log)].block)),
                    enemies |-> flight.enemies, log |-> g.log]} :
         \E f1 \in {flyStage(f0, Len(f0.shots), rect, maxBounces)} :
           \E f2 \in {strikeStage(f1, Len(f1.shots), maxBounces)} :
             /\ sinceShot' = g.sinceShot
             /\ flight' = [shots |-> f2.shots, enemies |-> f2.enemies]
             /\ log' = f2.log
  /\ UNCHANGED << blocks, bullets, gridOccupied, gameOver, gamePaused,
                  showUpgradeMenu, score, kills, requiredKills, level, bulletDamage,
                  bulletSpeedMultiplier, maxBounces, currentBlockSpeed,
                  currentSpawnInterval, sinceSpawn, aim, runs, rect, boxes >>

NextStream == StreamFrame
SpecStream == InitStream /\ [][NextStream]_vars
\* the browser keeps calling the frame back: weak fairness of the frame,
\* WF_vars(StreamFrame), written out; the frame is enabled in every state of
\* these runs and changes sinceShot
FairStream == SpecStream /\ []<><<StreamFrame>>_vars

(* ---------------- a barrage ---------------- *)
\* a SMALL enemy of the first level, hit once, that has left the spawn zone
\* and released its cell
veteran(i) ==
  [newBlock("SMALL", BLOCK_SIZES.SMALL, FALSE, Ceil(Ceil(normalHp(1), 2), 2),
            BLOCK_SPEED, [col |-> i % GRID_COLUMNS, row |-> 0, cellsNeeded |-> 1], TRUE)
     EXCEPT !.hp = @ - 1, !.gridFreed = TRUE]

\* late in the first level: MaxWave LARGE enemies and their MEDIUM children are
\* destroyed, k of the SMALL ones are killed, the others are hit once and are
\* below the spawn zone, and up to MaxVolley projectiles are in flight
InitBarrage ==
  /\ \E k \in 0..(INITIAL_REQUIRED_KILLS - 1) :
       /\ kills = k
       /\ blocks = [i \in 1..(4 * MaxWave - k) |-> veteran(i)]
       /\ score = MaxWave * (SCORE_LARGE + 2 * SCORE_MEDIUM) + k * SCORE_SMALL
  /\ \E n \in 0..MaxVolley : bullets = [i \in 1..n |-> [bounces |-> 0, damage |-> 1]]
  /\ gridOccupied = {}
  /\ gameOver = FALSE
  /\ gamePaused = FALSE
  /\ showUpgradeMenu = FALSE
  /\ requiredKills = INITIAL_REQUIRED_KILLS
  /\ level = 1
  /\ bulletDamage = 1
  /\ bulletSpeedMultiplier = 100
  /\ maxBounces = 0
  /\ currentBlockSpeed = BLOCK_SPEED
  /\ currentSpawnInterval = BLOCK_SPAWN_INTERVAL
  /\ sinceShot = 0
  /\ sinceSpawn = 0
  /\ aim = NoAim
  /\ runs = 1
  /\ pending = 1
  /\ rect = [width |-> 768, height |-> 1024]
  /\ boxes = << >>
  /\ flight = NoFlight
  /\ log = << >>

BarrageFrame == gameLoop(BarrageInputs) /\ UNCHANGED << rect, boxes, flight >>
NextBarrage == BarrageFrame
SpecBarrage == InitBarrage /\ [][NextBarrage]_vars

(* ---------------- the difficulty ramp ---------------- *)
\* levelUp() as a function of the level: it is applied to a running game
\* without the frames that bring the kills, up to the level MaxRank
MaxRank == 24

Climb ==
  /\ ~halted(State)
  /\ level < MaxRank
  /\ \E columns \in Shuffles :
       \E g1 \in {levelUp(State, columns)} : Install(g1)
  /\ runs' = runs
  /\ pending' = pending
  /\ UNCHANGED << rect, boxes, flight >>

NextClimb == Climb \/ UpgradeClick
SpecClimb == Init /\ [][NextClimb]_vars

(* ======================================================================= *)
(* Properties                                                              *)
(* ======================================================================= *)
\* the cell block [gridRow, gridRow+gridCells) x [gridCol, gridCol+gridCells)
Footprint(b) ==
  {<<r, c>> : r \in b.gridRow..(b.gridRow + b.gridCells - 1),
              c \in b.gridCol..(b.gridCol + b.gridCells - 1)}

EventsOf(l, type) == {k \in 1..Len(l) : l[k].type = type}

\* the step is a restart
Restarted == gameOver /\ ~gameOver'

\* the destroyed enemies among l[from..to] that the tally counts
Tally(l, from, to) ==
  Cardinality({k \in from..to :
                 l[k].type = "destroy" /\ (l[k].block.size = "SMALL" \/ l[k].block.isElite)})

\* cells along the side of a square enemy
SideCells(side) == (side + GRID_CELL_SIZE - 1) \div GRID_CELL_SIZE

\* the occupancy has a free n x n block the allocator may use
Room(grid, n) ==
  \E r \in 0..(maxRow - 1), c \in 0..(GRID_COLUMNS - n) :
    \A dr \in 0..(n - 1), dc \in 0..(n - 1) : <<r + dr, c + dc>> \notin grid

\* e is what one search for the cells of a new enemy left in the log
IsSearch(e, how) == e.type \in {"spawn", "nospace"} /\ e.a = how

(* ---- C1 ---- *)
\* C1: any two distinct live enemies that both still hold their grid cells
\* (neither has released them at the spawn-zone threshold) claim disjoint
\* cell blocks.
C1_DisjointFootprints ==
  \A i, j \in 1..Len(blocks) :
    (i # j /\ ~blocks[i].gridFreed /\ ~blocks[j].gridFreed)
      => Footprint(blocks[i]) \cap Footprint(blocks[j]) = {}

(* ---- C2 ---- *)
\* C2: an enemy whose cells were freed at the spawn-zone threshold frees no
\* cell again when it is destroyed.
C2_FreedOnce ==
  \A k \in EventsOf(log, "destroy") : log[k].block.gridFreed => log[k].b = {}

(* ---- C3 ---- *)
\* C3: every live enemy has HP > 0 when update() returns, and a destroyed
\* enemy was spliced out by the very hit that took its HP from above 0 to
\* 0 or below.
C3_PositiveHp ==
  /\ \A i \in 1..Len(blocks) : blocks[i].hp > 0
  /\ \A k \in EventsOf(log, "destroy") : log[k].a > 0 /\ log[k].block.hp <= 0

C3_Witness == EventsOf(log, "destroy") # {} /\ Len(blocks) > 0

(* ---- C4 ---- *)
\* C4: when update() returns every live projectile has bounces <= maxBounces;
\* with maxBounces = 0 no live projectile has had a contact.
C4_BouncesBounded ==
  /\ \A i \in 1..Len(bullets) : bullets[i].bounces <= maxBounces
  /\ maxBounces = 0 => \A i \in 1..Len(bullets) : bullets[i].bounces = 0

C4_Witness == \E i \in 1..Len(bullets) : bullets[i].bounces >= 1

(* ---- C5 ---- *)
\* C5: in every step the kill tally grows by one for each destroyed SMALL or
\* elite enemy, counted from 0 again after a level-up, and by nothing else.
C5_KillTally ==
  [][ IF Restarted THEN kills' = 0
      ELSE LET l == log'
               ups == EventsOf(l, "levelup")
               prev(u) == IF \E m \in ups : m < u
                          THEN CHOOSE m \in ups : m < u /\ \A x \in ups : x < u => x <= m
                          ELSE 0
               last == prev(Len(l) + 1)
           IN  /\ kills' = (IF last = 0 THEN kills ELSE 0) + Tally(l, last + 1, Len(l))
               /\ \A u \in ups :
                    l[u].a = (IF prev(u) = 0 THEN kills ELSE 0) + Tally(l, prev(u) + 1, u - 1)
    ]_vars

C5_Witness ==
  /\ kills > 0
  /\ \E k \in EventsOf(log, "destroy") : log[k].block.size = "SMALL"

C7_EliteWhenRoom ==
  \A k \in 1..Len(log) :
    /\ log[k].type = "levelup" =>
         /\ k < Len(log)
         /\ IsSearch(log[k + 1], "elite")
         /\ LET e == log[k + 1]
                n == SideCells(BLOCK_SIZES.LARGE + 10 * level)
            IN  IF Room(e.b, n)
                THEN /\ e.type = "spawn"
                     /\ e.block.isElite
                     /\ e.block.hp = 10 * level
                     /\ e.block.maxHp = 10 * level
                     /\ e.block.gridCells = n
                     /\ Footprint(e.block) \cap e.b = {}
                ELSE e.type = "nospace"
    /\ IsSearch(log[k], "elite") => k > 1 /\ log[k - 1].type = "levelup"

\* C7 as stated: every level-up adds one elite with HP = maxHP = 10 * the new
\* level, whatever the grid holds.
C7_EliteAlways ==
  \A k \in EventsOf(log, "levelup") :
    /\ k < Len(log)
    /\ log[k + 1].type = "spawn"
    /\ log[k + 1].block.isElite
    /\ log[k + 1].block.hp = 10 * level
    /\ log[k + 1].block.maxHp = 10 * level

C7_Witness ==
  \E k \in EventsOf(log, "levelup") :
    k < Len(log) /\ log[k + 1].type = "nospace" /\ level = 2

(* ---- C8 ---- *)
IsChildSearch(e) == IsSearch(e, "child")

\* e is the search for a child of the given tier: a child on free cells when
\* there is room for it, nothing when there is none
ChildWhenRoom(e, tier) ==
  /\ IsChildSearch(e)
  /\ IF Room(e.b, SideCells(BLOCK_SIZES[tier]))
     THEN /\ e.type = "spawn"
          /\ e.block.size = tier
          /\ ~e.block.isElite
          /\ Footprint(e.block) \cap e.b = {}
     ELSE e.type = "nospace"

SplitsUp(p) == ~p.isElite /\ p.size # "SMALL"
NextTier(p) == IF p.size = "LARGE" THEN "MEDIUM" ELSE "SMALL"

\* C8, as the code has it: destroying a non-elite LARGE or MEDIUM enemy searches
\* the grid twice, once per child of the next smaller tier, and adds a child
\* for each search that finds room; destroying a SMALL or elite enemy adds no
\* child; children appear in no other way.
C8_SplitWhenRoom ==
  /\ \A k \in EventsOf(log, "destroy") :
       IF SplitsUp(log[k].block)
       THEN /\ k + 2 <= Len(log)
            /\ ChildWhenRoom(log[k + 1], NextTier(log[k].block))
            /\ ChildWhenRoom(log[k + 2], NextTier(log[k].block))
       ELSE k + 1 <= Len(log) => ~IsChildSearch(log[k + 1])
  /\ \A k \in 1..Len(log) :
       IsChildSearch(log[k]) =>
         \/ k > 1 /\ log[k - 1].type = "destroy"
         \/ k > 2 /\ log[k - 2].type = "destroy" /\ IsChildSearch(log[k - 1])

\* C8 as stated: destroying a non-elite LARGE or MEDIUM enemy adds exactly two
\* enemies of the next smaller tier, destroying a SMALL or elite enemy none.
C8_TwoChildren ==
  \A k \in EventsOf(log, "destroy") :
    LET children == {m \in (k + 1)..Len(log) :
                       /\ m <= k + 2
                       /\ log[m].type = "spawn"
                       /\ log[m].a = "child"
                       /\ log[m].block.size = NextTier(log[k].block)}
    IN  Cardinality(children) = (IF SplitsUp(log[k].block) THEN 2 ELSE 0)

C8_Witness ==
  \E k \in EventsOf(log, "destroy") :
    /\ k + 2 <= Len(log)
    /\ log[k + 1].type = "spawn" /\ log[k + 1].a = "child"
    /\ log[k + 2].type = "nospace"

(* ---- C9 ---- *)
IsChild(e) == e.type = "spawn" /\ e.a = "child"

\* the destroyed enemy whose split pushed the child at l[k]
ParentOf(l, k) ==
  l[CHOOSE j \in 1..(k - 1) :
      l[j].type = "destroy" /\ \A m \in (j + 1)..(k - 1) : l[m].type # "destroy"].block

\* C9: a split child starts with HP = maxHP = ceil(parent maxHP / 2) and with
\* the parent's speed; two such children together exceed the parent's maxHP
\* by 0 or 1.
C9_ChildHp ==
  \A k \in 1..Len(log) :
    IsChild(log[k]) =>
      LET p == ParentOf(log, k)
          c == log[k].block
      IN  /\ c.hp = (p.maxHp + 1) \div 2
          /\ c.maxHp = c.hp
          /\ c.speed = p.speed
          /\ 2 * c.hp - p.maxHp \in {0, 1}

C9_Witness ==
  \E k \in 1..Len(log) :
    /\ k < Len(log)
    /\ IsChild(log[k]) /\ IsChild(log[k + 1])
    /\ log[k].block.hp + log[k + 1].block.hp = ParentOf(log, k).maxHp + 1

(* ---- C10 ---- *)
Award(b) ==
  IF b.isElite THEN 100
  ELSE IF b.size = "LARGE" THEN 30
  ELSE IF b.size = "MEDIUM" THEN 20
  ELSE 10

RECURSIVE Awards(_, _)
Awards(l, k) ==
  IF k = 0 THEN 0
  ELSE Awards(l, k - 1) + (IF l[k].type = "destroy" THEN Award(l[k].block) ELSE 0)

\* C10: within a run the score never decreases; a step changes it by 30, 20,
\* 10 or 100 for each LARGE, MEDIUM, SMALL or elite enemy it destroys, and
\* by nothing else.
C10_Score ==
  [][ IF Restarted THEN score' = 0
      ELSE score' = score + Awards(log', Len(log')) /\ score' >= score
    ]_vars

C10_Witness == score > 0 /\ EventsOf(log, "destroy") # {}

(* ---- C11 ---- *)
\* the step is a click: an upgrade or a restart
Clicked == (showUpgradeMenu /\ ~showUpgradeMenu') \/ Restarted

\* the milliseconds that may pass between two frames
Dts == PlayInputs.dts \cup ZoneInputs.dts \cup CrowdInputs.dts \cup LateInputs.dts

\* C11: a frame that runs while the game is over or paused changes nothing:
\* projectiles, enemies, occupancy, score, kills, level, upgrade levels and the
\* flags stay, and neither timer is restarted (the time since the last shot and
\* the last spawn only grows with the clock).
C11_HaltedFrame ==
  [][ ((gameOver \/ gamePaused) /\ ~Clicked) =>
        /\ UNCHANGED << blocks, bullets, gridOccupied, score, kills, requiredKills,
                        level, bulletDamage, bulletSpeedMultiplier, maxBounces,
                        gameOver, gamePaused, showUpgradeMenu,
                        currentBlockSpeed, currentSpawnInterval >>
        /\ log' = << >>
        /\ \E dt \in Dts :
             /\ sinceShot' = Min(sinceShot + dt, BULLET_COOLDOWN)
             /\ sinceSpawn' = Min(sinceSpawn + dt, BLOCK_SPAWN_INTERVAL)
    ]_vars

C11_Witness == gamePaused /\ log = << >> /\ runs = 2 /\ Len(blocks) > 0

(* ---- C12 ---- *)
\* C12: gameOver becomes true exactly in a step whose enemy loop finds an enemy
\* with y beyond the bottom edge, and it stays true through every later step
\* until the restart.
C12_GameOver ==
  [][ IF Restarted THEN ~gameOver'
      ELSE /\ gameOver' = (gameOver \/ EventsOf(log', "bottom") # {})
           /\ gameOver => EventsOf(log', "bottom") = {}
    ]_vars

C12_Witness == gameOver /\ EventsOf(log, "bottom") = {} /\ Len(blocks) > 1

(* ---- C13 ---- *)
\* C13: applyUpgrade, called with the menu open, raises exactly one of damage
\* (+1), speed multiplier (+0.02) and max bounces (+1), leaves level, kills,
\* score, enemies, projectiles and occupancy as they are, and clears the pause
\* and menu flags.
C13_ApplyUpgrade ==
  [][ (showUpgradeMenu /\ ~showUpgradeMenu') =>
        /\ gamePaused /\ ~gamePaused'
        /\ \/ /\ bulletDamage' = bulletDamage + 1
              /\ UNCHANGED << bulletSpeedMultiplier, maxBounces >>
           \/ /\ bulletSpeedMultiplier' = bulletSpeedMultiplier + 2
              /\ UNCHANGED << bulletDamage, maxBounces >>
           \/ /\ maxBounces' = maxBounces + 1
              /\ UNCHANGED << bulletDamage, bulletSpeedMultiplier >>
        /\ UNCHANGED << level, kills, requiredKills, score, blocks, bullets,
                        gridOccupied, gameOver >>
    ]_vars

C13_Witness ==
  /\ level = 2 /\ ~showUpgradeMenu /\ ~gamePaused /\ log = << >>
  /\ bulletSpeedMultiplier = 102 /\ bulletDamage = 1 /\ maxBounces = 0
  /\ sinceShot = 0

(* ---- C14 ---- *)
\* C14: a restart leaves all run state at baseline: score 0, kills 0,
\* requiredKills 10, level 1, damage 1, speed multiplier 1, max bounces 0, the
\* flags false, no projectile, no enemy, and an empty occupancy set.
C14_RestartBaseline ==
  [][ Restarted =>
        /\ score' = 0 /\ kills' = 0 /\ requiredKills' = 10 /\ level' = 1
        /\ bulletDamage' = 1 /\ bulletSpeedMultiplier' = 100 /\ maxBounces' = 0
        /\ ~gameOver' /\ ~gamePaused' /\ ~showUpgradeMenu'
        /\ bullets' = << >> /\ blocks' = << >>
        /\ gridOccupied' = {}
    ]_vars

(* ---- C15 ---- *)
\* the cells of the enemies that the events of l added
Placed(l) == UNION {Footprint(l[k].block) : k \in EventsOf(l, "spawn")}

\* C15: a search that finds no free block adds no enemy and marks no cell: in
\* every step the enemies grow by the successful placements only, and only
\* their cells are newly occupied; the failure changes neither gameOver nor the
\* pause flags (a pause in that step comes with a level-up), so the frames
\* go on.
C15_SkipOnNoSpace ==
  [][ ~Restarted =>
        /\ Len(blocks') = Len(blocks) + Cardinality(EventsOf(log', "spawn"))
                                      - Cardinality(EventsOf(log', "destroy"))
        /\ gridOccupied' \subseteq gridOccupied \cup Placed(log')
        /\ EventsOf(log', "nospace") # {} =>
             /\ ~gameOver /\ ~gameOver'
             /\ ~gamePaused
             /\ gamePaused' = (EventsOf(log', "levelup") # {})
             /\ showUpgradeMenu' = gamePaused'
    ]_vars

C15_Witness ==
  /\ \E k \in EventsOf(log, "nospace") : log[k].a = "normal"
  /\ ~gameOver /\ ~gamePaused
  /\ ~Room(gridOccupied, SideCells(BLOCK_SIZES.LARGE))

(* ---- C16 ---- *)
\* C16: at most one gameLoop callback is waiting at requestAnimationFrame.
C16_OnePending == pending <= 1

(* ---- C17 ---- *)
\* C17: damage, speed multiplier and max bounces start every run at 1, 1 and 0
\* and never decrease within it; nor do level and requiredKills.
C17_Monotone ==
  /\ bulletDamage = 1 /\ bulletSpeedMultiplier = 100 /\ maxBounces = 0
  /\ [][ IF Restarted
         THEN bulletDamage' = 1 /\ bulletSpeedMultiplier' = 100 /\ maxBounces' = 0
         ELSE /\ bulletDamage' >= bulletDamage
              /\ bulletSpeedMultiplier' >= bulletSpeedMultiplier
              /\ maxBounces' >= maxBounces
              /\ level' >= level
              /\ requiredKills' >= requiredKills
       ]_vars

C17_Witness == runs = 2 /\ level = 2 /\ bulletDamage = 2 /\ ~gamePaused

(* ---- C18 ---- *)
\* the greatest index in a non-empty set of indices
Last(S) == CHOOSE x \in S : \A y \in S : y <= x

\* C18: whatever enemies a projectile overlaps, the inner loop damages only
\* the first of them in the reverse scan and tests no further one: every
\* other enemy is left as it was, and the contact adds 1 to the projectile's
\* bounces (and removes it when that exceeds maxBounces).
C18_OneHit ==
  \A i \in 1..Len(bullets) :
    \A overlaps \in SUBSET (1..Len(blocks)) :
      LET h == scanBlocks(State, i, Len(blocks), overlaps, First(Shuffles))
      IN  IF overlaps = {} THEN h = State
          ELSE
            LET j == Last(overlaps)
                dies == blocks[j].hp <= bullets[i].damage
            IN  /\ \A k \in 1..(j - 1) : h.blocks[k] = blocks[k]
                /\ \A k \in (j + 1)..Len(blocks) :
                     h.blocks[IF dies THEN k - 1 ELSE k] = blocks[k]
                /\ IF dies
                   THEN \E e \in EventsOf(h.log, "destroy") :
                          h.log[e].block = [blocks[j] EXCEPT !.hp = @ - bullets[i].damage]
                   ELSE /\ Len(h.blocks) = Len(blocks)
                        /\ h.blocks[j] = [blocks[j] EXCEPT !.hp = @ - bullets[i].damage]
                /\ IF bullets[i].bounces + 1 > maxBounces
                   THEN h.bullets = RemoveAt(bullets, i)
                   ELSE h.bullets = [bullets EXCEPT ![i].bounces = @ + 1]

C18_Witness ==
  /\ \E i \in 1..Len(bullets) : bullets[i].bounces = 0 /\ maxBounces = 1
  /\ EventsOf(log, "destroy") # {}
  /\ Len(blocks) >= 2

(* ---- C20 ---- *)
\* the enemy sizes the game asks cells for: the three tiers and the elites
Sizes == {BLOCK_SIZES.SMALL, BLOCK_SIZES.MEDIUM, BLOCK_SIZES.LARGE}
           \cup {BLOCK_SIZES.LARGE + l * ELITE_SIZE_GROWTH : l \in 1..(MaxLevel + 1)}

\* column orders a shuffle may produce
Orders ==
  { <<0, 1, 2, 3, 4, 5, 6, 7>>, <<7, 6, 5, 4, 3, 2, 1, 0>>, <<3, 7, 0, 5, 1, 6, 2, 4>> }

\* the n x n block at (r, c) lies within the columns and is unoccupied
Fits(grid, r, c, n) ==
  /\ c + n <= 8
  /\ \A dr \in 0..(n - 1), dc \in 0..(n - 1) : <<r + dr, c + dc>> \notin grid

\* C20: with n = ceil(size / 40), findAvailableGridCell returns a placement
\* (col, row, n) iff some row in 0..4 and some column hold a free n x n block
\* within the 8 columns; the placement returned is such a block and no such
\* block lies in a smaller row; otherwise it returns the no-space signal.
C20_Allocator ==
  \A size \in Sizes, columns \in Orders :
    LET n == (size + 39) \div 40
        pos == findAvailableGridCell(gridOccupied, size, columns)
    IN  IF \E r \in 0..4, c \in 0..7 : Fits(gridOccupied, r, c, n)
        THEN /\ pos # NoSpace
             /\ pos.cellsNeeded = n
             /\ pos.row \in 0..4
             /\ Fits(gridOccupied, pos.row, pos.col, n)
             /\ \A r \in 0..4, c \in 0..7 : Fits(gridOccupied, r, c, n) => pos.row <= r
        ELSE pos = NoSpace

C20_Witness ==
  /\ \E k \in EventsOf(log, "spawn") : log[k].a = "child" /\ log[k].block.gridRow = 4
  /\ findAvailableGridCell(gridOccupied, BLOCK_SIZES.SMALL, First(Shuffles)) = NoSpace

(* ---- C19 ---- *)
\* the boxes of two enemies share a point of the play field
Overlap(p, q) ==
  /\ p.x < q.x + 2 * GRID_COLUMNS * q.width
  /\ q.x < p.x + 2 * GRID_COLUMNS * p.width
  /\ p.y < q.y + 1000 * q.width
  /\ q.y < p.y + 1000 * p.width

\* C19: any two live enemies that both still hold their grid cells have
\* non-overlapping pixel boxes.
C19_DisjointBoxes ==
  \A i, j \in 1..Len(boxes) :
    (i # j /\ ~blocks[i].gridFreed /\ ~blocks[j].gridFreed)
      => ~Overlap(boxes[i], boxes[j])

(* ---- C21 ---- *)
\* the cells freed by the enemies destroyed after event k of l
FreedAfter(l, k) == UNION {l[d].b : d \in {m \in EventsOf(l, "destroy") : m > k}}

\* an enemy's reference to its cells
BackRef(b) == << b.gridRow, b.gridCol, b.gridCells, b.size >>

\* C21: every spawn of a step (first and second enemy of the spawner, elite,
\* split child) finds all n x n cells of the enemy's block, n = ceil(width / 40),
\* unoccupied just before and leaves them occupied (until a later hit of the
\* same step destroys an enemy on them); the enemy is pushed in that step with
\* gridRow, gridCol and gridCells naming that block, within rows 0.. and
\* columns 0..7; no other cell becomes occupied.
C21_SpawnMarksCells ==
  [][ ~Restarted =>
        /\ \A k \in EventsOf(log', "spawn") :
             LET b == log'[k].block
             IN  /\ Footprint(b) \cap log'[k].b = {}
                 /\ Footprint(b) \ FreedAfter(log', k) \subseteq gridOccupied'
                 /\ b.gridCells = SideCells(b.width)
                 /\ Cardinality(Footprint(b)) = b.gridCells * b.gridCells
                 /\ \A c \in Footprint(b) : c[1] >= 0 /\ c[2] \in 0..(GRID_COLUMNS - 1)
                 /\ \/ \E i \in 1..Len(blocks') : BackRef(blocks'[i]) = BackRef(b)
                    \/ \E d \in EventsOf(log', "destroy") :
                         d > k /\ BackRef(log'[d].block) = BackRef(b)
        /\ gridOccupied' \ gridOccupied \subseteq Placed(log')
    ]_vars

C21_Witness ==
  /\ \E k \in EventsOf(log, "spawn") : log[k].a = "second"
  /\ \E k \in EventsOf(log, "spawn") :
       log[k].a = "normal" /\ Footprint(log[k].block) \subseteq gridOccupied

(* ---- C22 ---- *)
\* C22: every enemy the periodic spawner adds is LARGE and not elite, with
\* HP = maxHP = 5 * the level at which the spawner runs and the speed of that
\* level, 0.4 * (1 + 0.15 * (level - 1)); an elite's speed is 0.8 times the
\* speed of the level just reached.
C22_SpawnerStats ==
  [][ ~Restarted =>
        \A k \in EventsOf(log', "spawn") :
          LET b == log'[k].block
          IN  /\ log'[k].a \in {"normal", "second"} =>
                   /\ b.size = "LARGE" /\ b.width = 80 /\ ~b.isElite
                   /\ b.hp = 5 * level /\ b.maxHp = 5 * level
                   /\ b.speed = currentBlockSpeed
                   /\ b.speed = 400 + 60 * (level - 1)
              /\ log'[k].a = "elite" =>
                   /\ b.isElite
                   /\ 10 * b.speed = 8 * currentBlockSpeed'
                   /\ 10 * b.speed = 8 * (400 + 60 * (level' - 1))
    ]_vars

C22_Witness ==
  /\ \E k \in EventsOf(log, "spawn") :
       log[k].a = "normal" /\ log[k].block.hp = 15 /\ log[k].block.speed = 520
  /\ \E i \in 1..Len(blocks) : blocks[i].isElite /\ blocks[i].speed = 416

(* ---- C23 ---- *)
\* the searches of l made by the spawner for its first (second) enemy
Ticks(l, how) == {k \in 1..Len(l) : IsSearch(l[k], how)}

\* a spawner tick adds at most one enemy while level < 3, at most two from
\* level 3 on, and searches at most once for each
AtMostTwo(l, lvl) ==
  /\ Cardinality(Ticks(l, "normal")) <= 1
  /\ Cardinality(Ticks(l, "second")) <= 1
  /\ Cardinality({k \in EventsOf(l, "spawn") : l[k].a \in {"normal", "second"}})
       <= (IF lvl < 3 THEN 1 ELSE 2)

\* C23, as the code has it: a spawner tick adds at most one enemy while
\* level < 3 and at most two at level >= 3; the second spawn is attempted
\* exactly when level >= 3, the first placement succeeded and the draw
\* succeeds: a tick whose first search finds no cells makes no second search.
C23_SecondAfterFirst ==
  [][ ~Restarted =>
        /\ AtMostTwo(log', level)
        /\ Ticks(log', "second") # {} <=>
             \E k \in Ticks(log', "normal") :
               level >= 3 /\ log'[k].coin /\ log'[k].type = "spawn"
    ]_vars

\* C23 as stated: the second spawn is attempted whenever level >= 3 and the
\* draw succeeds, whether or not the first placement succeeded.
C23_SecondAlways ==
  [][ ~Restarted =>
        /\ AtMostTwo(log', level)
        /\ Ticks(log', "second") # {} <=>
             \E k \in Ticks(log', "normal") : level >= 3 /\ log'[k].coin
    ]_vars

C23_Witness ==
  /\ level >= 3
  /\ \E k \in Ticks(log, "normal") : log[k].coin /\ log[k].type = "nospace"
  /\ Ticks(log, "second") = {}

(* ---- C24 ---- *)
\* C24: a step in which spawnBlock searches for a placement comes at least
\* currentSpawnInterval ms after the previous such step, and it restarts the
\* timer whether or not cells were found; no other step restarts it (frames
\* let it run, clicks leave it), so a failed placement is not retried before
\* a full interval has passed.
C24_RateLimit ==
  [][ ~Restarted =>
        IF Ticks(log', "normal") # {}
        THEN /\ \E dt \in SurgeInputs.dts :
                  Min(sinceSpawn + dt, BLOCK_SPAWN_INTERVAL) >= currentSpawnInterval
             /\ sinceSpawn' = 0
        ELSE /\ Ticks(log', "second") = {}
             /\ \/ sinceSpawn' = sinceSpawn
                \/ \E dt \in SurgeInputs.dts :
                     sinceSpawn' = Min(sinceSpawn + dt, BLOCK_SPAWN_INTERVAL)
    ]_vars

C24_Witness ==
  /\ \E k \in Ticks(log, "normal") : log[k].type = "nospace"
  /\ sinceSpawn = 0
  /\ currentSpawnInterval < BLOCK_SPAWN_INTERVAL

(* ---- C25 ---- *)
\* C25: a frame in which update() runs creates a projectile iff at least
\* 150 ms have passed since the last shot, so at most one a frame and any two
\* at least 150 ms apart.  The projectile has bounces = 0, the damage of the
\* damage upgrade level of that moment and the last-known aim direction:
\* (0, -1) at first, and from a shot made during a drag of length >= 10 on the
\* unit vector of that drag; nothing else changes the direction.
C25_Firing ==
  /\ aim.lastDirX = 0 /\ aim.lastDirY = -1000
  /\ [][ ~Restarted =>
           LET shots == EventsOf(log', "shoot")
               dx == aim.aimCurrentX - aim.aimStartX
               dy == aim.aimCurrentY - aim.aimStartY
               X == aim'.lastDirX
               Y == aim'.lastDirY
           IN  /\ Cardinality(shots) <= 1
               /\ Len(bullets') <= Len(bullets) + Cardinality(shots)
               /\ IF shots # {}
                  THEN /\ \E dt \in AimInputs.dts : sinceShot + dt >= 150
                       /\ sinceShot' = 0
                       /\ \A k \in shots :
                            /\ log'[k].block.bounces = 0
                            /\ log'[k].block.damage = bulletDamage
                            /\ log'[k].a = X /\ log'[k].b = Y
                            /\ 100 * log'[k].block.vx = X * 7 * bulletSpeedMultiplier * 100
                            /\ 100 * log'[k].block.vy = Y * 7 * bulletSpeedMultiplier * 100
                       /\ IF aim.isAiming /\ dx * dx + dy * dy >= 100
                          THEN /\ X * X + Y * Y = 1000000
                               /\ X * dy = Y * dx
                               /\ X * dx >= 0 /\ Y * dy >= 0
                          ELSE X = aim.lastDirX /\ Y = aim.lastDirY
                  ELSE /\ X = aim.lastDirX /\ Y = aim.lastDirY
                       /\ \/ gameOver \/ gamePaused
                          \/ sinceShot' = sinceShot
                          \/ \E dt \in AimInputs.dts :
                               sinceShot' = sinceShot + dt /\ sinceShot' < 150
       ]_vars

C25_Witness ==
  /\ \E k \in EventsOf(log, "shoot") :
       log[k].a = -800 /\ log[k].b = 600 /\ log[k].block.damage = 2
  /\ aim.isAiming /\ aim.aimCurrentX = 103

(* ---- C26 ---- *)
\* projectile centre minus enemy centre, 1/80 px
CentreDx(p, e) == (p.x + 40 * p.width) - (e.x + 40 * e.width)
CentreDy(p, e) == (p.y + 40 * p.height) - (e.y + 40 * e.height)
Mag(n) == IF n < 0 THEN -n ELSE n

\* C26: an enemy hit forces exactly one velocity component and keeps |vx| and
\* |vy|: with (dx, dy) the projectile centre minus the enemy centre, a hit on
\* the bottom (dy > 0 and dy >= |dx|) sets vy = |vy|, on the top (dy <= 0 and
\* -dy >= |dx|) vy = -|vy|, on the right (dx > 0 and dx >= |dy|) vx = |vx|, on
\* the left (dx < 0 and -dx >= |dy|) vx = -|vx|; the other component, the
\* position and the damage stay, and bounces grows by 1.
C26_Reflection ==
  \A k \in EventsOf(log, "strike") :
    LET was == log[k].b
        is == log[k].block
        dx == CentreDx(was, log[k].a)
        dy == CentreDy(was, log[k].a)
    IN  /\ Mag(is.vx) = Mag(was.vx) /\ Mag(is.vy) = Mag(was.vy)
        /\ is.x = was.x /\ is.y = was.y /\ is.damage = was.damage
        /\ is.bounces = was.bounces + 1
        /\ \/ dy > 0 /\ dy >= Mag(dx) /\ is.vy = Mag(was.vy) /\ is.vx = was.vx
           \/ dy <= 0 /\ -dy >= Mag(dx) /\ is.vy = -Mag(was.vy) /\ is.vx = was.vx
           \/ dx > 0 /\ dx >= Mag(dy) /\ is.vx = Mag(was.vx) /\ is.vy = was.vy
           \/ dx < 0 /\ -dx >= Mag(dy) /\ is.vx = -Mag(was.vx) /\ is.vy = was.vy

C26_Witness ==
  \E k \in EventsOf(log, "strike") :
    /\ log[k].b.vy > 0 /\ log[k].block.vy < 0
    /\ \E i \in 1..Len(flight.shots) : flight.shots[i] = log[k].block

(* ---- C27 ---- *)
\* the projectile's box lies within the play field
Inside(p, r) ==
  /\ 0 <= p.x /\ p.x <= 80 * (r.width - 6)
  /\ 0 <= p.y /\ p.y <= 80 * (r.height - 6)

\* C27: in the projectile-advance stage a projectile that, once moved, touches
\* or passes the left or right wall has vx inverted, one that touches or
\* passes the top or bottom wall has vy inverted; each of the two contacts
\* adds 1 to bounces (2 at a corner) and nothing else changes the velocity
\* or the counter; a component in contact is clamped to the wall, the other
\* is the moved one; every projectile left by the stage lies within
\* 0 <= x <= W - 6 and 0 <= y <= H - 6.
C27_WallBounce ==
  /\ \A k \in EventsOf(log, "fly") :
       LET was == log[k].b
           is == log[k].block
           x1 == was.x + was.vx
           y1 == was.y + was.vy
           side == x1 <= 0 \/ x1 + 480 >= 80 * rect.width
           ends == y1 <= 0 \/ y1 + 480 >= 80 * rect.height
       IN  /\ is.vx = (IF side THEN -was.vx ELSE was.vx)
           /\ is.vy = (IF ends THEN -was.vy ELSE was.vy)
           /\ is.bounces = was.bounces + (IF side THEN 1 ELSE 0) + (IF ends THEN 1 ELSE 0)
           /\ log[k].a = is.bounces - was.bounces
           /\ is.x = (IF ~side THEN x1 ELSE IF x1 <= 0 THEN 0 ELSE 80 * (rect.width - 6))
           /\ is.y = (IF ~ends THEN y1 ELSE IF y1 <= 0 THEN 0 ELSE 80 * (rect.height - 6))
           /\ is.bounces <= maxBounces => Inside(is, rect)
  /\ \A i \in 1..Len(flight.shots) : Inside(flight.shots[i], rect)

C27_Witness ==
  /\ \E k \in EventsOf(log, "fly") : log[k].a = 2
  /\ \E i \in 1..Len(flight.shots) : flight.shots[i].x = 0 /\ flight.shots[i].y = 0

(* ---- C28 ---- *)
\* 4000 * 0.9^n <= k
DecayAtMost(n, k) == wholeOf(n) < k \/ (wholeOf(n) = k /\ ~hasFraction(n))

\* ms is max(500, 4000 * 0.9^(lvl-1)) in whole milliseconds, rounded up
IsRampInterval(ms, lvl) ==
  /\ ms >= 500
  /\ DecayAtMost(lvl - 1, ms)
  /\ ms > 500 => ~DecayAtMost(lvl - 1, ms - 1)

\* C28: a level-up leaves the spawn interval at max(500, 4000 * 0.9^(level-1))
\* and the enemy speed at 0.4 * (1 + 0.15 * (level-1)), level being the new
\* level; over the level-up the interval does not increase and is at least
\* 500 ms, and the speed strictly increases.
C28_DifficultyRamp ==
  [][level' > level =>
       /\ IsRampInterval(currentSpawnInterval', level')
       /\ 100 * currentBlockSpeed' = 400 * (100 + 15 * (level' - 1))
       /\ currentSpawnInterval' <= currentSpawnInterval
       /\ currentSpawnInterval' >= 500
       /\ currentBlockSpeed' > currentBlockSpeed]_vars

\* the level-up that first brings the interval to its floor
C28_Witness ==
  /\ gamePaused /\ EventsOf(log, "levelup") # {}
  /\ currentSpawnInterval = 500
  /\ ~DecayAtMost(level - 2, 500)

(* ---- C29 ---- *)
\* the step is an applyUpgrade() call
Upgraded == showUpgradeMenu /\ ~showUpgradeMenu'

\* C29: while the game is paused for an upgrade no enemy's HP, no enemy, the
\* score and the kill tally change until applyUpgrade is called; and in the
\* frame of a level-up nothing is hit or destroyed, and no enemy is pushed,
\* after levelUp() has run (its own elite apart): the projectiles the
\* collision pass has not yet processed leave the enemies alone.
C29_FrozenOncePaused ==
  [][/\ (gamePaused /\ ~Upgraded) =>
          blocks' = blocks /\ score' = score /\ kills' = kills
     /\ \A k \in EventsOf(log', "levelup") :
          \A m \in (k + 1)..Len(log') : m = k + 1 /\ IsSearch(log'[m], "elite")]_vars

(* ---- C30 ---- *)
\* the upgrades applied in this run
Upgrades ==
  (bulletDamage - 1) + (bulletSpeedMultiplier - 100) \div SPEED_UPGRADE_INCREMENT
  + maxBounces

C31_OneMode ==
  /\ gamePaused = showUpgradeMenu
  /\ ~(gameOver /\ gamePaused)

\* the game is over in a run that was paused for an upgrade and resumed
C31_Witness ==
  gameOver /\ ~gamePaused /\ ~showUpgradeMenu /\ level > 1 /\ Upgrades = level - 1

(* ---- C32 ---- *)
\* the cells recorded by the live enemies that have not released theirs
Held == UNION {Footprint(blocks[i]) : i \in {j \in 1..Len(blocks) : ~blocks[j].gridFreed}}

\* C32: in every state of every run the occupancy set has no orphan cell:
\* each occupied cell lies in the recorded block of a live enemy that has not
\* yet released its cells.
C32_NoOrphan == gridOccupied \subseteq Held

\* the same, in the run that starts with the page
C32_FirstRun == runs = 1 => gridOccupied \subseteq Held

(* ---- C33 ---- *)
\* the cell blocks an enemy may record
Places ==
  { << r, c, n[1], n[2] >> :
      r \in 0..(maxRow - 1), c \in 0..(GRID_COLUMNS - 1),
      n \in { <<2, "LARGE">>, <<2, "MEDIUM">>, <<1, "SMALL">> } }

\* a live enemy records the cell block p and has not released it
Holds(p) ==
  \E i \in 1..Len(blocks) : BackRef(blocks[i]) = p /\ ~blocks[i].gridFreed

\* the positions agree with what the enemies record about the spawn zone
DescentSane ==
  /\ Len(boxes) = Len(blocks)
  /\ \A i \in 1..Len(blocks) :
       /\ blocks[i].deep = (boxes[i].y > 1000 * spawnZoneHeight)
       /\ blocks[i].gridFreed = blocks[i].deep

OldestRemoved ==
  /\ flight.shots # << >>
  /\ \E k \in 1..Len(log') :
       /\ log'[k].block.bounces > maxBounces
       /\ \/ log'[k].type = "fly" /\ log'[k].b = flight.shots[1]
          \/ log'[k].type = "strike" /\ log'[k].b = advanceShot(flight.shots[1], rect)

\* frames between two wall contacts of a projectile, at most: a component of
\* the velocity that is not zero crosses the canvas
Crossing(b, r) ==
  Min(IF b.vx = 0 THEN Px(r.width + r.height) ELSE Px(r.width) \div Abs(b.vx) + 1,
      IF b.vy = 0 THEN Px(r.width + r.height) ELSE Px(r.height) \div Abs(b.vy) + 1)

\* projectiles in flight at most: one is fired every Ceil(150, 16) frames and
\* lives for maxBounces + 1 wall contacts
InFlightMost(b, r) ==
  Ceil((maxBounces + 1) * Crossing(b, r), Ceil(BULLET_COOLDOWN, 16)) + 1

\* C34: while frames keep running in the Playing state with maxBounces
\* fixed, every fired projectile is eventually removed (again and again the
\* oldest projectile in flight is removed because its bounce counter exceeds
\* maxBounces, or none is in flight), every projectile flies with a velocity
\* that is not zero, and the projectile collection stays bounded.
C34_ProjectilesRemoved ==
  /\ []<><<OldestRemoved>>_vars \/ []<>(flight.shots = << >>)
  /\ [](\A i \in 1..Len(flight.shots) :
          /\ flight.shots[i].vx # 0 \/ flight.shots[i].vy # 0
          /\ flight.shots[i].bounces <= maxBounces
          /\ Len(flight.shots) <= InFlightMost(flight.shots[i], rect))
  /\ [][maxBounces' = maxBounces /\ ~halted(State)]_vars

\* several projectiles are in flight, one has bounced and stayed, and the
\* frame before removed one at a wall
C34_Witness ==
  /\ maxBounces > 0
  /\ Len(flight.shots) > 1
  /\ \E i \in 1..Len(flight.shots) : flight.shots[i].bounces > 0
  /\ \E k \in 1..Len(log) :
       log[k].type = "fly" /\ log[k].block.bounces > maxBounces

====
